---- MODULE Spec2Model ----
(***************************************************************************)
(* A model of terraform-provider-garage: the provider's Configure, and the *)
(* lifecycle handlers of the garage_key and garage_object resources and of *)
(* the garage_bucket and garage_object data sources, run against a Garage  *)
(* cluster's admin API and S3 store.  Every handler is one atomic action:  *)
(* each runs its remote calls in sequence and returns.                     *)
(*                                                                         *)
(* The handlers are translated from the provider package.  The admin API   *)
(* client (internal/client), the garage_bucket resource and the            *)
(* garage_bucket_permission resource are modelled from the specification   *)
(* of their request/response contract.                                     *)
(***************************************************************************)
EXTENDS Integers, Sequences, FiniteSets, TLC

(***************************************************************************)
(* Bounds of the model.                                                    *)
(***************************************************************************)
NumKeys == 2
NumBuckets == 2
NumAliases == 2
MaxQuota == 1

KeyIdPool == <<"GK1", "GK2", "GK3", "GK4">>
BucketIdPool == <<"b1", "b2", "b3", "b4">>
AliasPool == <<"a1", "a2", "a3", "a4">>

KeyIDs == {KeyIdPool[i] : i \in 1..NumKeys}
BucketIDs == {BucketIdPool[i] : i \in 1..NumBuckets}
Aliases == {AliasPool[i] : i \in 1..NumAliases}
Secrets == {"s1", "s2"}
KeyNames == {"", "n1"}
QuotaValues == 0..MaxQuota

(***************************************************************************)
(* Go pointers to string, int64 or struct: nil, or a value.                *)
(***************************************************************************)
None == <<>>
Some(x) == <<x>>
Deref(p) == p[1]

(***************************************************************************)
(* The plugin framework's attribute values (types.String, types.Int64,     *)
(* types.Bool, types.List): null, unknown, or a known value.  ValueString  *)
(* and ValueInt64 of a null or unknown value are the zero value.           *)
(***************************************************************************)
StringNull == [k |-> "null", v |-> ""]
StringUnknown == [k |-> "unknown", v |-> ""]
StringValue(s) == [k |-> "known", v |-> s]
Int64Null == [k |-> "null", v |-> 0]
Int64Value(n) == [k |-> "known", v |-> n]
BoolValue(b) == [k |-> "known", v |-> b]
ListValue(s) == [k |-> "known", v |-> s]
IsNull(x) == x.k = "null"
IsUnknown(x) == x.k = "unknown"
ValueString(x) == x.v

Range(s) == {s[i] : i \in 1..Len(s)}

(***************************************************************************)
(* State.                                                                  *)
(*   srvKeys     the cluster's access keys: id -> None or Some(key)        *)
(*   keyState    the tracked state of the garage_key resource              *)
(*   keyStep     the last lifecycle step of garage_key: its name, its      *)
(*               plan, its diagnostic and the admin calls it made          *)
(*   keySecret0  the secret recorded by the last successful Create         *)
(*   keyReply    how the admin API answered the last step's call: "ok",    *)
(*               "not_found", "error", or "none" when it made no call      *)
(*   srvBuckets  the cluster's buckets: id -> None or Some(bucket)         *)
(*   brState     the tracked state of the garage_bucket resource           *)
(*   brUpdate    Some(website settings before) after an update of the      *)
(*               tracked bucket that supplied max_size alone               *)
(*   dsState     the state the last garage_bucket data source Read set     *)
(*   dsStep      that Read's configuration, diagnostic and request         *)
(*               (no handler reads either: both are kept until a bucket    *)
(*               next changes, and then forgotten)                         *)
(*   srvPerms    the cluster's bucket permissions, a set of triples        *)
(*   permStep    the last permission call and what it found                *)
(*   s3Store     the objects of the S3 store, a set of records             *)
(*   objState    the tracked state of the garage_object resource           *)
(*   objStep     the last lifecycle step of garage_object: its name, its   *)
(*               plan (Create, Update) or import ID (ImportState), its     *)
(*               diagnostic and the S3 calls it made with their replies    *)
(*   odsState    the state the last garage_object data source Read set     *)
(*   odsStep     that Read's configuration, diagnostic and calls           *)
(*   provStep    the last GarageProvider.Configure: its configuration, its *)
(*               environment and its diagnostic                            *)
(*   providerData  the provider data Configure handed to the framework     *)
(*   keyClient, dsClient        the admin clients KeyResource and          *)
(*               BucketDataSource built in their Configure                 *)
(*   objS3Client, odsS3Client   the S3 clients of the object resource and  *)
(*               of the object data source                                 *)
(***************************************************************************)
VARIABLES srvKeys, keyState, keyStep, keySecret0, keyReply,
          srvBuckets, brState, brUpdate, dsState, dsStep,
          srvPerms, permStep,
          s3Store, objState, objStep, odsState, odsStep, objAside,
          provStep, providerData, keyClient, dsClient, objS3Client, odsS3Client,
          s3Client, running, tracked, reported, serial

keyVars == <<srvKeys, keyState, keyStep, keySecret0, keyReply>>
bucketVars == <<srvBuckets, brState, brUpdate, dsState, dsStep>>
permVars == <<srvPerms, permStep>>
objVars == <<s3Store, objState, objStep, odsState, odsStep, objAside>>
provVars == <<provStep, providerData, keyClient, dsClient, objS3Client, odsS3Client>>
concVars == <<s3Client, running, tracked, reported, serial>>
vars == <<keyVars, bucketVars, permVars, objVars, provVars, concVars>>

Absent == [present |-> FALSE]
NoDiag == "none"

(***************************************************************************)
(* Admin API client, key operations (request/response contract).           *)
(***************************************************************************)
KeyExists(keys, id) == id \in DOMAIN keys /\ keys[id] # None

\* CreateKey(nameOptional): a key record with a generated id and a secret
\* present only in this response; a failed request changes nothing.
CreateKeyOutcomes(keys, req) ==
    {[err |-> TRUE, keys |-> keys, key |-> None]} \cup
    {[err |-> FALSE,
      keys |-> [keys EXCEPT ![id] =
                  Some([Name |-> IF req.Name = None THEN "" ELSE Deref(req.Name),
                        Secret |-> s])],
      key |-> Some([AccessKeyID |-> id,
                    Name |-> IF req.Name = None THEN "" ELSE Deref(req.Name),
                    SecretAccessKey |-> Some(s)])]
       : id \in {i \in KeyIDs : ~KeyExists(keys, i)}, s \in Secrets}

\* ImportKey(id, secret, nameOptional): registers the caller's credentials;
\* fails if the id already exists.
ImportKeyOutcomes(keys, req) ==
    {[err |-> TRUE, keys |-> keys, key |-> None]} \cup
    IF KeyExists(keys, req.AccessKeyID) \/ req.AccessKeyID \notin KeyIDs
    THEN {}
    ELSE {[err |-> FALSE,
           keys |-> [keys EXCEPT ![req.AccessKeyID] =
                       Some([Name |-> IF req.Name = None THEN "" ELSE Deref(req.Name),
                             Secret |-> req.SecretAccessKey])],
           key |-> Some([AccessKeyID |-> req.AccessKeyID,
                         Name |-> IF req.Name = None THEN "" ELSE Deref(req.Name),
                         SecretAccessKey |-> None])]}

\* GetKeyInfo(id): the key record without its secret, or not-found (no
\* record and no error).
GetKeyInfoOutcomes(keys, req) ==
    {[err |-> TRUE, key |-> None]} \cup
    {[err |-> FALSE,
      key |-> IF KeyExists(keys, req.ID)
              THEN Some([AccessKeyID |-> req.ID,
                         Name |-> Deref(keys[req.ID]).Name,
                         SecretAccessKey |-> None])
              ELSE None]}

\* DeleteKey(id).
DeleteKeyOutcomes(keys, req) ==
    {[err |-> TRUE, keys |-> keys]} \cup
    IF KeyExists(keys, req.ID)
    THEN {[err |-> FALSE, keys |-> [keys EXCEPT ![req.ID] = None]]}
    ELSE {}

(***************************************************************************)
(* KeyResource.                                                            *)
(***************************************************************************)
KeyModel(id, name, secret) ==
    [present |-> TRUE, id |-> id, name |-> name, secret |-> secret]

StringAttrs(S) == {StringNull, StringUnknown} \cup {StringValue(s) : s \in S}

\* The plans Create can be given: id, name and secret_access_key are
\* Optional+Computed, so each is the configured value or unknown.
KeyPlans ==
    {KeyModel(i, n, s) : i \in StringAttrs(KeyIDs), n \in StringAttrs(KeyNames),
                         s \in StringAttrs(Secrets)}

hasID(data) == ~IsNull(data.id) /\ ~IsUnknown(data.id)
hasSecret(data) == ~IsNull(data.secret) /\ ~IsUnknown(data.secret)

KeyCreatePathOr(data) ==
    IF hasID(data) /\ hasSecret(data) THEN "import"
    ELSE IF ~hasID(data) \/ ~hasSecret(data) THEN "create"
    ELSE "invalid"

KeyCreatePathAny(data) ==
    IF hasID(data) \/ hasSecret(data) THEN "import"
    ELSE IF ~hasID(data) /\ ~hasSecret(data) THEN "create"
    ELSE "invalid"

\* Which entry path Create takes.
KeyCreatePath(data) ==
    IF hasID(data) /\ hasSecret(data) THEN "import"
    ELSE IF ~hasID(data) /\ ~hasSecret(data) THEN "create"
    ELSE "invalid"

ImportKeyRequestOtherID(data) ==
    [AccessKeyID |-> IF \E i \in KeyIDs : i # ValueString(data.id)
                     THEN CHOOSE i \in KeyIDs : i # ValueString(data.id)
                     ELSE ValueString(data.id),
     SecretAccessKey |-> ValueString(data.secret),
     Name |-> IF ~IsNull(data.name) THEN Some(ValueString(data.name)) ELSE None]

ImportKeyRequest(data) ==
    [AccessKeyID |-> ValueString(data.id),
     SecretAccessKey |-> ValueString(data.secret),
     Name |-> IF ~IsNull(data.name) THEN Some(ValueString(data.name)) ELSE None]

CreateKeyRequest(data) ==
    [Name |-> IF ~IsNull(data.name) THEN Some(ValueString(data.name)) ELSE None]

\* The state Create records after ImportKey answered key.
KeyImportedModel(data, key) ==
    KeyModel(StringValue(key.AccessKeyID), StringValue(key.Name),
             StringValue(ValueString(data.secret)))

KeyCreatedModelPlanName(data, key) ==
    KeyModel(StringValue(key.AccessKeyID), data.name,
             IF key.SecretAccessKey # None
             THEN StringValue(Deref(key.SecretAccessKey))
             ELSE data.secret)

\* The state Create records after CreateKey answered key.
KeyCreatedModel(data, key) ==
    KeyModel(StringValue(key.AccessKeyID), StringValue(key.Name),
             IF key.SecretAccessKey # None
             THEN StringValue(Deref(key.SecretAccessKey))
             ELSE data.secret)

Step(op, plan, diag, calls) ==
    [op |-> op, plan |-> plan, diag |-> diag, calls |-> calls]

KeyCreate ==
    /\ UNCHANGED <<bucketVars, permVars, objVars, provVars, concVars>>
    /\ keyState = Absent
    /\ \E data \in KeyPlans :
         CASE KeyCreatePath(data) = "import" ->
                \E o \in ImportKeyOutcomes(srvKeys, ImportKeyRequest(data)) :
                  IF o.err
                  THEN /\ keyStep' = Step("Create", data, "Client Error", <<"ImportKey">>)
                       /\ keyReply' = "error"
                       /\ UNCHANGED <<srvKeys, keyState, keySecret0>>
                  ELSE /\ srvKeys' = o.keys
                       /\ keyState' = KeyImportedModel(data, Deref(o.key))
                       /\ keySecret0' = keyState'.secret
                       /\ keyStep' = Step("Create", data, NoDiag, <<"ImportKey">>)
                       /\ keyReply' = "ok"
           [] KeyCreatePath(data) = "create" ->
                \E o \in CreateKeyOutcomes(srvKeys, CreateKeyRequest(data)) :
                  IF o.err
                  THEN /\ keyStep' = Step("Create", data, "Client Error", <<"CreateKey">>)
                       /\ keyReply' = "error"
                       /\ UNCHANGED <<srvKeys, keyState, keySecret0>>
                  ELSE /\ srvKeys' = o.keys
                       /\ keyState' = KeyCreatedModel(data, Deref(o.key))
                       /\ keySecret0' = keyState'.secret
                       /\ keyStep' = Step("Create", data, NoDiag, <<"CreateKey">>)
                       /\ keyReply' = "ok"
           [] OTHER ->
                /\ keyStep' = Step("Create", data, "Invalid Configuration", <<>>)
                /\ keyReply' = "none"
                /\ UNCHANGED <<srvKeys, keyState, keySecret0>>

KeyReadModelNoSecret(data, key) ==
    KeyModel(StringValue(key.AccessKeyID), StringValue(key.Name),
             IF key.SecretAccessKey # None
             THEN StringValue(Deref(key.SecretAccessKey))
             ELSE StringNull)

\* The state Read records when GetKeyInfo answered key: the secret is the
\* one already in state.
KeyReadModel(data, key) ==
    KeyModel(StringValue(key.AccessKeyID), StringValue(key.Name), data.secret)

KeyReadGoneKept(data) == data

\* What Read makes of a GetKeyInfo that found no key: the resource leaves
\* the state.
KeyReadGone(data) == Absent

KeyRead ==
    /\ UNCHANGED <<bucketVars, permVars, objVars, provVars, concVars>>
    /\ keyState # Absent
    /\ \E o \in GetKeyInfoOutcomes(srvKeys, [ID |-> ValueString(keyState.id)]) :
         /\ IF o.err
            THEN /\ keyStep' = Step("Read", keyState, "Client Error", <<"GetKeyInfo">>)
                 /\ keyReply' = "error"
                 /\ UNCHANGED keyState
            ELSE /\ keyStep' = Step("Read", keyState, NoDiag, <<"GetKeyInfo">>)
                 /\ keyReply' = IF o.key = None THEN "not_found" ELSE "ok"
                 /\ keyState' = IF o.key = None THEN KeyReadGone(keyState)
                                ELSE KeyReadModel(keyState, Deref(o.key))
         /\ UNCHANGED <<srvKeys, keySecret0>>

\* The plan of an update: id and secret_access_key carry RequiresReplace and
\* UseStateForUnknown, so an in-place update is planned only when neither
\* differs from the state, and a value left out of the configuration is
\* planned as the state's.
KeyPlanAttr(cfg, prior) == IF IsNull(cfg) THEN prior ELSE cfg

KeyUpdatePlan(cfg, state) ==
    KeyModel(KeyPlanAttr(cfg.id, state.id), cfg.name,
             KeyPlanAttr(cfg.secret, state.secret))

KeyRequiresReplace(plan, state) ==
    plan.id # state.id \/ plan.secret # state.secret

KeyConfigs ==
    {KeyModel(i, n, s) : i \in {StringNull} \cup {StringValue(x) : x \in KeyIDs},
                         n \in {StringValue(x) : x \in KeyNames},
                         s \in {StringNull} \cup {StringValue(x) : x \in Secrets}}

\* Update records the plan and calls nothing.
KeyUpdate ==
    /\ UNCHANGED <<bucketVars, permVars, objVars, provVars, concVars>>
    /\ keyState # Absent
    /\ \E cfg \in KeyConfigs :
         LET data == KeyUpdatePlan(cfg, keyState) IN
         /\ ~KeyRequiresReplace(data, keyState)
         /\ keyState' = data
         /\ keyStep' = Step("Update", data, NoDiag, <<>>)
         /\ keyReply' = "none"
    /\ UNCHANGED <<srvKeys, keySecret0>>

\* Delete: on success the framework drops the state.
KeyDelete ==
    /\ UNCHANGED <<bucketVars, permVars, objVars, provVars, concVars>>
    /\ keyState # Absent
    /\ \E o \in DeleteKeyOutcomes(srvKeys, [ID |-> ValueString(keyState.id)]) :
         IF o.err
         THEN /\ keyStep' = Step("Delete", keyState, "Client Error", <<"DeleteKey">>)
              /\ keyReply' = "error"
              /\ UNCHANGED <<srvKeys, keyState>>
         ELSE /\ keyStep' = Step("Delete", keyState, NoDiag, <<"DeleteKey">>)
              /\ keyReply' = "ok"
              /\ srvKeys' = o.keys
              /\ keyState' = Absent
    /\ UNCHANGED keySecret0

\* Other users of the cluster: a key is imported or deleted behind the
\* provider's back.
AdminImportKey ==
    /\ UNCHANGED <<bucketVars, permVars, objVars, provVars, concVars>>
    /\ \E id \in KeyIDs, s \in Secrets, n \in KeyNames :
         /\ ~KeyExists(srvKeys, id)
         /\ srvKeys' = [srvKeys EXCEPT ![id] = Some([Name |-> n, Secret |-> s])]
    /\ UNCHANGED <<keyState, keyStep, keySecret0, keyReply>>

AdminDeleteKey ==
    /\ UNCHANGED <<bucketVars, permVars, objVars, provVars, concVars>>
    /\ \E id \in KeyIDs :
         /\ KeyExists(srvKeys, id)
         /\ srvKeys' = [srvKeys EXCEPT ![id] = None]
    /\ UNCHANGED <<keyState, keyStep, keySecret0, keyReply>>

(***************************************************************************)
(* Admin API client, bucket operations (request/response contract).        *)
(***************************************************************************)
WebsiteConfigs ==
    {[IndexDocument |-> "index.html", ErrorDocument |-> "error.html"],
     [IndexDocument |-> "home.html", ErrorDocument |-> ""]}

Ptrs(S) == {None} \cup {Some(x) : x \in S}

QuotaConfigs == [MaxSize : Ptrs(QuotaValues), MaxObjects : Ptrs(QuotaValues)]

BucketExists(buckets, id) == id \in DOMAIN buckets /\ buckets[id] # None

AliasTaken(buckets, a) ==
    \E id \in DOMAIN buckets :
        buckets[id] # None /\ a \in Range(Deref(buckets[id]).GlobalAliases)

\* A bucket as the cluster creates it: no website hosting, no quotas, empty.
NewBucket(id, aliases) ==
    [ID |-> id, GlobalAliases |-> aliases, WebsiteAccess |-> FALSE,
     WebsiteConfig |-> None, Quotas |-> None,
     Objects |-> 0, Bytes |-> 0, UnfinishedUploads |-> 0]

\* CreateBucket(aliasOptional): a new bucket record with an assigned id.
CreateBucketOutcomes(buckets, req) ==
    {[err |-> TRUE, buckets |-> buckets, bucket |-> None]} \cup
    IF req.GlobalAlias # None /\ AliasTaken(buckets, Deref(req.GlobalAlias))
    THEN {}
    ELSE {[err |-> FALSE,
           buckets |-> [buckets EXCEPT ![id] = Some(NewBucket(id, req.GlobalAlias))],
           bucket |-> Some(NewBucket(id, req.GlobalAlias))]
            : id \in {i \in BucketIDs : ~BucketExists(buckets, i)}}

UpdatedBucketClearing(b, req) ==
    [b EXCEPT
       !.WebsiteAccess = req.WebsiteAccess # None /\ Deref(req.WebsiteAccess).Enabled,
       !.WebsiteConfig =
           IF req.WebsiteAccess # None /\ Deref(req.WebsiteAccess).Enabled
           THEN Some(Deref(req.WebsiteAccess).Config) ELSE None,
       !.Quotas = req.Quotas]

\* UpdateBucket(id, websiteConfig?, quotas?): only the supplied parts change.
UpdatedBucket(b, req) ==
    [b EXCEPT
       !.WebsiteAccess =
           IF req.WebsiteAccess = None THEN @ ELSE Deref(req.WebsiteAccess).Enabled,
       !.WebsiteConfig =
           IF req.WebsiteAccess = None THEN @
           ELSE IF Deref(req.WebsiteAccess).Enabled
                THEN Some(Deref(req.WebsiteAccess).Config) ELSE None,
       !.Quotas = IF req.Quotas = None THEN @ ELSE req.Quotas]

UpdateBucketOutcomes(buckets, req) ==
    {[err |-> TRUE, buckets |-> buckets]} \cup
    IF BucketExists(buckets, req.ID)
    THEN {[err |-> FALSE,
           buckets |-> [buckets EXCEPT
                          ![req.ID] = Some(UpdatedBucket(Deref(buckets[req.ID]), req))]]}
    ELSE {}

\* DeleteBucket(id).
DeleteBucketOutcomes(buckets, req) ==
    {[err |-> TRUE, buckets |-> buckets]} \cup
    IF BucketExists(buckets, req.ID) /\ Deref(buckets[req.ID]).Objects = 0
    THEN {[err |-> FALSE, buckets |-> [buckets EXCEPT ![req.ID] = None]]}
    ELSE {}

RemoveFrom(s, x) == SelectSeq(s, LAMBDA y : y # x)

\* AddBucketAlias(id, alias) / RemoveBucketAlias(id, alias): a global alias
\* names one bucket.
AddBucketAlias(buckets, id, a) ==
    [buckets EXCEPT ![id] =
        Some([Deref(@) EXCEPT !.GlobalAliases = Append(@, a)])]

RemoveBucketAlias(buckets, id, a) ==
    [buckets EXCEPT ![id] =
        Some([Deref(@) EXCEPT !.GlobalAliases = RemoveFrom(@, a)])]

LookupByID(buckets, id) ==
    IF BucketExists(buckets, id) THEN buckets[id] ELSE None

LookupByAlias(buckets, a) ==
    IF AliasTaken(buckets, a)
    THEN buckets[CHOOSE id \in DOMAIN buckets :
                    buckets[id] # None /\ a \in Range(Deref(buckets[id]).GlobalAliases)]
    ELSE None

\* GetBucketInfo(id | globalAlias): the full bucket record, or not-found (no
\* record and no error).  The contract does not say which of the two decides
\* a request that carries both.
GetBucketInfoOutcomes(buckets, req) ==
    {[err |-> TRUE, bucket |-> None]} \cup
    (IF req.ID # None
     THEN {[err |-> FALSE, bucket |-> LookupByID(buckets, Deref(req.ID))]} ELSE {}) \cup
    (IF req.GlobalAlias # None
     THEN {[err |-> FALSE, bucket |-> LookupByAlias(buckets, Deref(req.GlobalAlias))]}
     ELSE {})

(***************************************************************************)
(* BucketDataSource.                                                       *)
(***************************************************************************)
DsConfigs ==
    [id : {StringNull} \cup {StringValue(x) : x \in BucketIDs},
     global_alias : {StringNull} \cup {StringValue(x) : x \in Aliases}]

DsMissingRequiredNever(data) == FALSE

\* Neither id nor global_alias is given.
DsMissingRequired(data) == IsNull(data.id) /\ IsNull(data.global_alias)

DsRequestSwapped(data) ==
    [ID |-> IF ~IsNull(data.global_alias)
            THEN Some(ValueString(data.global_alias)) ELSE None,
     GlobalAlias |-> IF ~IsNull(data.id) THEN Some(ValueString(data.id)) ELSE None]

\* The GetBucketInfo request Read builds from the configuration.
DsRequest(data) ==
    [ID |-> IF ~IsNull(data.id) THEN Some(ValueString(data.id)) ELSE None,
     GlobalAlias |-> IF ~IsNull(data.global_alias)
                     THEN Some(ValueString(data.global_alias)) ELSE None]

DsIDFieldKept(data, bucket) == data.id

DsIDField(data, bucket) == StringValue(bucket.ID)

DsAliasFields(bucket) ==
    IF Len(bucket.GlobalAliases) > 0
    THEN [global_alias |-> StringValue(bucket.GlobalAliases[1]),
          global_aliases |->
              ListValue([i \in 1..Len(bucket.GlobalAliases) |->
                            StringValue(bucket.GlobalAliases[i])])]
    ELSE [global_alias |-> StringNull, global_aliases |-> ListValue(<<>>)]

DsWebsiteFields(bucket) ==
    [website_enabled |-> BoolValue(bucket.WebsiteAccess),
     website_index_document |->
         IF bucket.WebsiteConfig # None
         THEN StringValue(Deref(bucket.WebsiteConfig).IndexDocument) ELSE StringNull,
     website_error_document |->
         IF bucket.WebsiteConfig # None
         THEN StringValue(Deref(bucket.WebsiteConfig).ErrorDocument) ELSE StringNull]

DsQuotaFieldsZero(bucket) ==
    IF bucket.Quotas # None
    THEN [max_size |-> IF Deref(bucket.Quotas).MaxSize # None
                       THEN Int64Value(Deref(Deref(bucket.Quotas).MaxSize))
                       ELSE Int64Value(0),
          max_objects |-> IF Deref(bucket.Quotas).MaxObjects # None
                          THEN Int64Value(Deref(Deref(bucket.Quotas).MaxObjects))
                          ELSE Int64Value(0)]
    ELSE [max_size |-> Int64Value(0), max_objects |-> Int64Value(0)]

DsQuotaFields(bucket) ==
    IF bucket.Quotas # None
    THEN [max_size |-> IF Deref(bucket.Quotas).MaxSize # None
                       THEN Int64Value(Deref(Deref(bucket.Quotas).MaxSize))
                       ELSE Int64Null,
          max_objects |-> IF Deref(bucket.Quotas).MaxObjects # None
                          THEN Int64Value(Deref(Deref(bucket.Quotas).MaxObjects))
                          ELSE Int64Null]
    ELSE [max_size |-> Int64Null, max_objects |-> Int64Null]

\* The state Read sets when GetBucketInfo answered bucket.
DsModel(data, bucket) ==
    [present |-> TRUE,
     id |-> DsIDField(data, bucket),
     global_alias |-> DsAliasFields(bucket).global_alias,
     global_aliases |-> DsAliasFields(bucket).global_aliases,
     website_enabled |-> DsWebsiteFields(bucket).website_enabled,
     website_index_document |-> DsWebsiteFields(bucket).website_index_document,
     website_error_document |-> DsWebsiteFields(bucket).website_error_document,
     max_size |-> DsQuotaFields(bucket).max_size,
     max_objects |-> DsQuotaFields(bucket).max_objects,
     objects |-> Int64Value(bucket.Objects),
     bytes |-> Int64Value(bucket.Bytes),
     unfinished_uploads |-> Int64Value(bucket.UnfinishedUploads)]

DsStep(cfg, diag, req) == [op |-> "Read", cfg |-> cfg, diag |-> diag, req |-> req]

DsNoStep ==
    [op |-> "none", cfg |-> [id |-> StringNull, global_alias |-> StringNull],
     diag |-> NoDiag, req |-> None]

DsForget == dsState' = Absent /\ dsStep' = DsNoStep

DsRead ==
    /\ UNCHANGED <<keyVars, permVars, objVars, provVars, concVars, srvBuckets, brState, brUpdate>>
    /\ \E data \in DsConfigs :
         IF DsMissingRequired(data)
         THEN /\ dsStep' = DsStep(data, "Missing Required Attribute", None)
              /\ dsState' = Absent
         ELSE \E o \in GetBucketInfoOutcomes(srvBuckets, DsRequest(data)) :
                /\ IF o.err
                   THEN /\ dsStep' = DsStep(data, "Client Error", Some(DsRequest(data)))
                        /\ dsState' = Absent
                   ELSE IF o.bucket = None
                   THEN /\ dsStep' = DsStep(data, "Bucket Not Found", Some(DsRequest(data)))
                        /\ dsState' = Absent
                   ELSE /\ dsStep' = DsStep(data, NoDiag, Some(DsRequest(data)))
                        /\ dsState' = DsModel(data, Deref(o.bucket))

(***************************************************************************)
(* BucketResource (from its contract): Create makes a bucket with the      *)
(* planned global alias, Update sends the planned website settings and     *)
(* quotas, Delete deletes the bucket.                                      *)
(***************************************************************************)
BucketModel(id, alias) == [present |-> TRUE, id |-> id, global_alias |-> alias]

BucketCreate ==
    /\ UNCHANGED <<keyVars, permVars, objVars, provVars, concVars, brUpdate>>
    /\ brState = Absent
    /\ \E a \in Aliases :
       \E o \in CreateBucketOutcomes(srvBuckets, [GlobalAlias |-> Some(a)]) :
         /\ ~o.err
         /\ srvBuckets' = o.buckets
         /\ brState' = BucketModel(StringValue(Deref(o.bucket).ID), StringValue(a))
         /\ DsForget

WebsiteRequests ==
    {[Enabled |-> FALSE, Config |-> [IndexDocument |-> "", ErrorDocument |-> ""]]} \cup
    {[Enabled |-> TRUE, Config |-> c] : c \in WebsiteConfigs}

UpdateBucketRequests(id) ==
    [ID : {id}, WebsiteAccess : Ptrs(WebsiteRequests), Quotas : Ptrs(QuotaConfigs)]

\* The request supplies max_size and nothing else.
OnlyMaxSize(req) ==
    /\ req.WebsiteAccess = None
    /\ req.Quotas # None
    /\ Deref(req.Quotas).MaxSize # None
    /\ Deref(req.Quotas).MaxObjects = None

BucketUpdate ==
    /\ UNCHANGED <<keyVars, permVars, objVars, provVars, concVars, brState>>
    /\ brState # Absent
    /\ \E req \in UpdateBucketRequests(ValueString(brState.id)) :
       \E o \in UpdateBucketOutcomes(srvBuckets, req) :
         /\ ~o.err
         /\ srvBuckets' = o.buckets
         /\ brUpdate' =
              IF OnlyMaxSize(req) /\ Deref(srvBuckets[req.ID]).WebsiteAccess
              THEN Some([WebsiteAccess |-> Deref(srvBuckets[req.ID]).WebsiteAccess,
                         WebsiteConfig |-> Deref(srvBuckets[req.ID]).WebsiteConfig])
              ELSE None
         /\ DsForget

BucketDelete ==
    /\ UNCHANGED <<keyVars, permVars, objVars, provVars, concVars>>
    /\ brState # Absent
    /\ \E o \in DeleteBucketOutcomes(srvBuckets, [ID |-> ValueString(brState.id)]) :
         /\ ~o.err
         /\ srvBuckets' = o.buckets
         /\ brState' = Absent
         /\ brUpdate' = None
         /\ DsForget

\* Other users of the cluster: buckets and aliases outside the provider.
AdminCreateBucket ==
    /\ UNCHANGED <<keyVars, permVars, objVars, provVars, concVars, brState, brUpdate>>
    /\ \E o \in CreateBucketOutcomes(srvBuckets, [GlobalAlias |-> None]) :
         /\ ~o.err
         /\ srvBuckets' = o.buckets
         /\ DsForget

AdminAddBucketAlias ==
    /\ UNCHANGED <<keyVars, permVars, objVars, provVars, concVars, brState, brUpdate>>
    /\ \E id \in BucketIDs, a \in Aliases :
         /\ BucketExists(srvBuckets, id)
         /\ ~AliasTaken(srvBuckets, a)
         /\ srvBuckets' = AddBucketAlias(srvBuckets, id, a)
         /\ DsForget

AdminRemoveBucketAlias ==
    /\ UNCHANGED <<keyVars, permVars, objVars, provVars, concVars, brState, brUpdate>>
    /\ \E id \in BucketIDs, a \in Aliases :
         /\ BucketExists(srvBuckets, id)
         /\ a \in Range(Deref(srvBuckets[id]).GlobalAliases)
         /\ srvBuckets' = RemoveBucketAlias(srvBuckets, id, a)
         /\ DsForget

AdminDeleteBucket ==
    /\ UNCHANGED <<keyVars, permVars, objVars, provVars, concVars, brState>>
    /\ \E id \in BucketIDs :
         /\ BucketExists(srvBuckets, id)
         /\ srvBuckets' = [srvBuckets EXCEPT ![id] = None]
         /\ brUpdate' = IF brState # Absent /\ ValueString(brState.id) = id
                        THEN None ELSE brUpdate
         /\ DsForget

(***************************************************************************)
(* Bucket permissions (from their contract): a triple (bucket, key,        *)
(* capabilities) with no identity beyond the pair it associates.           *)
(***************************************************************************)
PermBuckets == {"b1", "b2"}
PermKeys == {"GK1"}
Capabilities == [read : BOOLEAN, write : BOOLEAN, owner : BOOLEAN]

PermsOf(perms, b, k) == {p \in perms : p.bucket = b /\ p.key = k}

SetBucketPermissionAdding(perms, b, k, caps) ==
    perms \cup {[bucket |-> b, key |-> k, caps |-> caps]}

\* SetBucketPermission(bucketID, keyID, {read, write, owner}).
SetBucketPermission(perms, b, k, caps) ==
    (perms \ PermsOf(perms, b, k)) \cup {[bucket |-> b, key |-> k, caps |-> caps]}

\* ClearBucketPermission(bucketID, keyID).
ClearBucketPermission(perms, b, k) == perms \ PermsOf(perms, b, k)

PermStep(op, b, k, caps, repeated, before) ==
    [op |-> op, bucket |-> b, key |-> k, caps |-> caps,
     repeated |-> repeated, before |-> before]

PermissionSet ==
    /\ UNCHANGED <<keyVars, bucketVars, objVars, provVars, concVars>>
    /\ \E b \in PermBuckets, k \in PermKeys, caps \in Capabilities :
         /\ srvPerms' = SetBucketPermission(srvPerms, b, k, caps)
         /\ permStep' = PermStep("Set", b, k, caps,
                                 /\ permStep.op = "Set"
                                 /\ permStep.bucket = b
                                 /\ permStep.key = k
                                 /\ permStep.caps = caps,
                                 srvPerms)

PermissionClear ==
    /\ UNCHANGED <<keyVars, bucketVars, objVars, provVars, concVars>>
    /\ \E b \in PermBuckets, k \in PermKeys :
         /\ PermsOf(srvPerms, b, k) # {}
         /\ srvPerms' = ClearBucketPermission(srvPerms, b, k)
         /\ permStep' = PermStep("Clear", b, k, [read |-> FALSE, write |-> FALSE,
                                                 owner |-> FALSE], FALSE, srvPerms)

(***************************************************************************)
(* Strings whose characters matter (object names, import IDs, endpoints,   *)
(* contents) are sequences of characters, and the attribute values that    *)
(* hold them are null, unknown or a known sequence.                        *)
(***************************************************************************)
TextNull == [k |-> "null", v |-> <<>>]
TextUnknown == [k |-> "unknown", v |-> <<>>]
TextValue(s) == [k |-> "known", v |-> s]
MapNull == [k |-> "null", v |-> <<>>]

\* strings.Index(s, old): the first position where old occurs in s, or 0.
Index(s, old) ==
    LET At(i) == i + Len(old) - 1 <= Len(s) /\ SubSeq(s, i, i + Len(old) - 1) = old
    IN IF \E i \in 1..Len(s) : At(i)
       THEN CHOOSE i \in 1..Len(s) : At(i) /\ \A j \in 1..(i - 1) : ~At(j)
       ELSE 0

\* The last position where old occurs in s, or 0.
LastIndex(s, old) ==
    LET At(i) == i + Len(old) - 1 <= Len(s) /\ SubSeq(s, i, i + Len(old) - 1) = old
    IN IF \E i \in 1..Len(s) : At(i)
       THEN CHOOSE i \in 1..Len(s) : At(i) /\ \A j \in (i + 1)..Len(s) : ~At(j)
       ELSE 0

SplitAtLast(s, sep) ==
    IF LastIndex(s, sep) = 0 THEN <<s>>
    ELSE <<SubSeq(s, 1, LastIndex(s, sep) - 1),
           SubSeq(s, LastIndex(s, sep) + Len(sep), Len(s))>>

\* strings.SplitN(s, sep, 2): s cut at the first sep, or s alone.
SplitN2(s, sep) ==
    IF Index(s, sep) = 0 THEN <<s>>
    ELSE <<SubSeq(s, 1, Index(s, sep) - 1),
           SubSeq(s, Index(s, sep) + Len(sep), Len(s))>>

\* strings.Replace(s, old, new, 1) for a non-empty old.
Replace1(s, old, new) ==
    IF Index(s, old) = 0 THEN s
    ELSE SubSeq(s, 1, Index(s, old) - 1) \o new
         \o SubSeq(s, Index(s, old) + Len(old), Len(s))

(***************************************************************************)
(* The S3 store, as the object handlers use it: PutObject replaces the     *)
(* object at (bucket, key) and answers its ETag, HeadObject and GetObject  *)
(* answer the stored object or fail, DeleteObject removes it.  Every call  *)
(* can fail ("error": transport, status or decoding); a call for an object *)
(* that is not there fails with not-found.                                 *)
(***************************************************************************)
ObjBuckets == {<<"b">>}
ObjKeys == {<<"k">>, <<"k", "/", "k">>}
ObjContents == {<<"x">>, <<"x", "y">>}
ObjContentTypes == {<<"text/plain">>, <<"application/json">>}
FilePaths == {<<"f">>, <<"n">>}
\* The files on the machine Terraform runs on: path -> content.
FileSystem == (<<"f">>) :> <<"x">>

ETagOf(body) == <<"e">> \o body
StoreTime == <<"t">>

ObjectsAt(store, b, k) == {o \in store : o.Bucket = b /\ o.Key = k}

StoredObject(in) ==
    [Bucket |-> in.Bucket, Key |-> in.Key, Body |-> in.Body,
     ContentType |-> IF in.ContentType = <<>> THEN None ELSE Some(in.ContentType),
     ETag |-> ETagOf(in.Body), LastModified |-> StoreTime]

PutObjectOutcomes(store, in) ==
    {[reply |-> "error", store |-> store, ETag |-> None],
     [reply |-> "ok",
      store |-> (store \ ObjectsAt(store, in.Bucket, in.Key)) \cup {StoredObject(in)},
      ETag |-> Some(ETagOf(in.Body))]}

HeadObjectOutcomes(store, in) ==
    {[reply |-> "error", ETag |-> None, ContentType |-> None]} \cup
    IF ObjectsAt(store, in.Bucket, in.Key) = {}
    THEN {[reply |-> "not_found", ETag |-> None, ContentType |-> None]}
    ELSE {[reply |-> "ok", ETag |-> Some(o.ETag), ContentType |-> o.ContentType]
            : o \in ObjectsAt(store, in.Bucket, in.Key)}

DeleteObjectOutcomes(store, in) ==
    {[reply |-> "error", store |-> store],
     [reply |-> "ok", store |-> store \ ObjectsAt(store, in.Bucket, in.Key)]}

\* GetObject answers the object's headers and a body to read; reading the
\* body can fail after the headers arrived ("body_error").
GetObjectOutcomes(store, in) ==
    LET NoObject(r) == [reply |-> r, Body |-> <<>>, ContentType |-> None,
                        ContentLength |-> None, ETag |-> None,
                        LastModified |-> None, VersionId |-> None]
    IN {NoObject("error")} \cup
       IF ObjectsAt(store, in.Bucket, in.Key) = {}
       THEN {NoObject("not_found")}
       ELSE {NoObject("body_error")} \cup
            {[reply |-> "ok", Body |-> o.Body, ContentType |-> o.ContentType,
              ContentLength |-> Some(Len(o.Body)), ETag |-> Some(o.ETag),
              LastModified |-> Some(o.LastModified), VersionId |-> None]
               : o \in ObjectsAt(store, in.Bucket, in.Key)}

(***************************************************************************)
(* GarageObjectResource.                                                   *)
(***************************************************************************)
ObjModel(bucket, key, source, content, contentType, etag, id) ==
    [present |-> TRUE, bucket |-> bucket, key |-> key, source |-> source,
     content |-> content, content_type |-> contentType, etag |-> etag, id |-> id]

\* The plans Create and Update can be given: bucket and key are Required,
\* source and content Optional, content_type Optional+Computed (the
\* configured value or unknown), etag and id Computed.  No attribute carries
\* a plan modifier, so an update can plan any of them anew.
ObjectPlans ==
    {ObjModel(TextValue(b), TextValue(k), s, c, t, TextUnknown, TextUnknown) :
        b \in ObjBuckets, k \in ObjKeys,
        s \in {TextNull} \cup {TextValue(p) : p \in FilePaths},
        c \in {TextNull} \cup {TextValue(x) : x \in ObjContents},
        t \in {TextUnknown} \cup {TextValue(x) : x \in ObjContentTypes}}

ObjContentContentFirst(plan) ==
    IF ~IsNull(plan.content)
    THEN [diag |-> NoDiag, body |-> ValueString(plan.content),
          contentType |-> IF IsNull(plan.content_type)
                          THEN <<"text/plain">>
                          ELSE ValueString(plan.content_type)]
    ELSE IF ~IsNull(plan.source)
    THEN IF ValueString(plan.source) \in DOMAIN FileSystem
         THEN [diag |-> NoDiag, body |-> FileSystem[ValueString(plan.source)],
               contentType |-> IF IsNull(plan.content_type)
                               THEN <<"application/octet-stream">>
                               ELSE ValueString(plan.content_type)]
         ELSE [diag |-> "File Read Error", body |-> <<>>, contentType |-> <<>>]
    ELSE [diag |-> "Missing Content", body |-> <<>>, contentType |-> <<>>]

\* The content Create prepares: the body and content type to upload, or the
\* diagnostic it stops with.
ObjContent(plan) ==
    IF ~IsNull(plan.source)
    THEN IF ValueString(plan.source) \in DOMAIN FileSystem
         THEN [diag |-> NoDiag, body |-> FileSystem[ValueString(plan.source)],
               contentType |-> IF IsNull(plan.content_type)
                               THEN <<"application/octet-stream">>
                               ELSE ValueString(plan.content_type)]
         ELSE [diag |-> "File Read Error", body |-> <<>>, contentType |-> <<>>]
    ELSE IF ~IsNull(plan.content)
    THEN [diag |-> NoDiag, body |-> ValueString(plan.content),
          contentType |-> IF IsNull(plan.content_type)
                          THEN <<"text/plain">>
                          ELSE ValueString(plan.content_type)]
    ELSE [diag |-> "Missing Content", body |-> <<>>, contentType |-> <<>>]

PutObjectInput(plan, c) ==
    [Bucket |-> ValueString(plan.bucket), Key |-> ValueString(plan.key),
     Body |-> c.body, ContentType |-> c.contentType]

ObjIDNoSlash(bucket, key) == TextValue(ValueString(bucket) \o ValueString(key))

\* The id of an object: bucket/key.
ObjID(bucket, key) == TextValue(ValueString(bucket) \o <<"/">> \o ValueString(key))

\* The state Create records after PutObject answered out.
ObjCreatedModel(plan, c, out) ==
    [plan EXCEPT !.id = ObjID(plan.bucket, plan.key),
                 !.etag = TextValue(Deref(out.ETag)),
                 !.content_type = TextValue(c.contentType)]

Call(op, reply) == [op |-> op, reply |-> reply]

PutObjectRetried(out) ==
    IF out.reply = "error"
    THEN <<Call("PutObject", "error"), Call("PutObject", out.reply)>>
    ELSE <<Call("PutObject", out.reply)>>

\* The remote calls of one upload: PutObject, once.
PutObjectCalls(out) == <<Call("PutObject", out.reply)>>

ObjStep(op, plan, diag, calls, importID) ==
    [op |-> op, plan |-> plan, diag |-> diag, calls |-> calls, importID |-> importID]

ObjNoStep == ObjStep("none", Absent, NoDiag, <<>>, <<>>)

OdsStep(op, cfg, diag, calls) == [op |-> op, cfg |-> cfg, diag |-> diag, calls |-> calls]

OdsNoStep == OdsStep("none", [bucket |-> TextNull, key |-> TextNull], NoDiag, <<>>)

OdsForget == odsState' = Absent /\ odsStep' = OdsNoStep

\* What objStep keeps of the plan of a step that failed: the plan of a
\* Create, nothing of an Update's.
ObjFailedPlan(op, plan) == IF op = "Create" THEN plan ELSE Absent

\* The body of Create, which Update runs too, with the plan it was given.
ObjUpload(op, plan) ==
    LET c == ObjContent(plan) IN
    IF c.diag # NoDiag
    THEN /\ objStep' = ObjStep(op, ObjFailedPlan(op, plan), c.diag, <<>>, <<>>)
         /\ UNCHANGED <<s3Store, objState, odsState, odsStep>>
    ELSE \E out \in PutObjectOutcomes(s3Store, PutObjectInput(plan, c)) :
           IF out.reply # "ok"
           THEN /\ objStep' = ObjStep(op, ObjFailedPlan(op, plan), "Object Upload Failed",
                                      PutObjectCalls(out), <<>>)
                /\ UNCHANGED <<s3Store, objState, odsState, odsStep>>
           ELSE /\ objStep' = ObjStep(op, plan, NoDiag,
                                      PutObjectCalls(out), <<>>)
                /\ s3Store' = out.store
                /\ objState' = ObjCreatedModel(plan, c, out)
                /\ OdsForget

ObjectCreate ==
    /\ UNCHANGED <<keyVars, bucketVars, permVars, provVars, concVars, objAside>>
    /\ objState = Absent
    /\ \E plan \in ObjectPlans : ObjUpload("Create", plan)

ObjReadGoneKept(state, out) == state

\* What Read makes of a failed HeadObject: the resource leaves the state.
ObjReadGone(state, out) == Absent

\* The state Read records when HeadObject answered out.
ObjReadModel(state, out) ==
    [state EXCEPT !.etag = TextValue(Deref(out.ETag)),
                  !.content_type = IF out.ContentType # None
                                   THEN TextValue(Deref(out.ContentType)) ELSE @]

ObjectRead ==
    /\ UNCHANGED <<keyVars, bucketVars, permVars, provVars, concVars, objAside>>
    /\ objState # Absent
    /\ \E out \in HeadObjectOutcomes(s3Store, [Bucket |-> ValueString(objState.bucket),
                                               Key |-> ValueString(objState.key)]) :
         /\ objStep' = ObjStep("Read", Absent, NoDiag,
                               <<Call("HeadObject", out.reply)>>, <<>>)
         /\ objState' = IF out.reply # "ok" THEN ObjReadGone(objState, out)
                        ELSE ObjReadModel(objState, out)
    /\ UNCHANGED <<s3Store, odsState, odsStep>>

\* Update hands its plan to Create; the response it passes is its own, which
\* holds the prior state until Create sets a new one.
ObjectUpdate ==
    /\ UNCHANGED <<keyVars, bucketVars, permVars, provVars, concVars, objAside>>
    /\ objState # Absent
    /\ \E plan \in ObjectPlans : ObjUpload("Update", plan)

\* Delete: on success the framework drops the state.
ObjectDelete ==
    /\ UNCHANGED <<keyVars, bucketVars, permVars, provVars, concVars, objAside>>
    /\ objState # Absent
    /\ \E out \in DeleteObjectOutcomes(s3Store, [Bucket |-> ValueString(objState.bucket),
                                                 Key |-> ValueString(objState.key)]) :
         IF out.reply # "ok"
         THEN /\ objStep' = ObjStep("Delete", Absent, "Object Deletion Failed",
                                    <<Call("DeleteObject", out.reply)>>, <<>>)
              /\ UNCHANGED <<s3Store, objState, odsState, odsStep>>
         ELSE /\ objStep' = ObjStep("Delete", Absent, NoDiag,
                                    <<Call("DeleteObject", out.reply)>>, <<>>)
              /\ s3Store' = out.store
              /\ objState' = Absent
              /\ OdsForget

MaxImportLen == 4
ImportAlphabet == {"b", "k", "/"}
ImportIDs == UNION {[1..n -> ImportAlphabet] : n \in 0..MaxImportLen}

ObjImportParts(id) == SplitN2(id, <<"/">>)

\* The state ImportState sets: bucket, key and id, nothing else.
ObjImportedModel(id) ==
    ObjModel(TextValue(ObjImportParts(id)[1]), TextValue(ObjImportParts(id)[2]),
             TextNull, TextNull, TextNull, TextNull, TextValue(id))

ObjectImportState ==
    /\ UNCHANGED <<keyVars, bucketVars, permVars, provVars, concVars, objAside>>
    /\ objState = Absent
    /\ \E id \in ImportIDs :
         IF Len(ObjImportParts(id)) # 2
         THEN /\ objStep' = ObjStep("ImportState", Absent, "Invalid Import ID",
                                    <<>>, id)
              /\ UNCHANGED objState
         ELSE /\ objStep' = ObjStep("ImportState", Absent, NoDiag, <<>>, id)
              /\ objState' = ObjImportedModel(id)
    /\ UNCHANGED <<s3Store, odsState, odsStep>>

\* The import step of the acceptance test (ImportStateVerify): the state the
\* step before recorded is set aside, and the import starts from an empty
\* state, to be compared with the one set aside.
NothingAside == [state |-> Absent, by |-> "none"]

ObjectStateSetAside ==
    /\ UNCHANGED <<keyVars, bucketVars, permVars, provVars, concVars>>
    /\ objState # Absent
    /\ objStep.diag = NoDiag
    /\ objAside' = [state |-> objState, by |-> objStep.op]
    /\ objState' = Absent
    /\ objStep' = ObjNoStep
    /\ UNCHANGED <<s3Store, odsState, odsStep>>

\* Other users of the store: an object is removed behind the provider's
\* back.  What the last steps observed no longer describes the store.
StoreObjectRemoved ==
    /\ UNCHANGED <<keyVars, bucketVars, permVars, provVars, concVars, objAside>>
    /\ \E o \in s3Store : s3Store' = s3Store \ {o}
    /\ objStep' = ObjNoStep
    /\ OdsForget
    /\ UNCHANGED objState

(***************************************************************************)
(* GarageObjectDataSource.                                                 *)
(***************************************************************************)
OdsConfigs == [bucket : {TextValue(b) : b \in ObjBuckets},
               key : {TextValue(k) : k \in ObjKeys}]

OdsContentTypeDefault(out) == TextValue(<<"application/octet-stream">>)

OdsContentType(out) ==
    IF out.ContentType # None THEN TextValue(Deref(out.ContentType))
    ELSE TextValue(<<"application/octet-stream">>)

OdsContentLength(out) ==
    IF out.ContentLength # None THEN Int64Value(Deref(out.ContentLength))
    ELSE Int64Value(Len(out.Body))

\* The state Read sets when GetObject answered out and its body was read.
\* The computed attributes of a data source's configuration are null.
OdsModel(config, out) ==
    [present |-> TRUE, bucket |-> config.bucket, key |-> config.key,
     body |-> TextValue(out.Body),
     id |-> ObjID(config.bucket, config.key),
     content_type |-> OdsContentType(out),
     content_length |-> OdsContentLength(out),
     etag |-> IF out.ETag # None THEN TextValue(Deref(out.ETag)) ELSE TextNull,
     last_modified |-> IF out.LastModified # None
                       THEN TextValue(Deref(out.LastModified)) ELSE TextNull,
     version_id |-> IF out.VersionId # None
                    THEN TextValue(Deref(out.VersionId)) ELSE TextNull,
     metadata |-> MapNull]

ObjectDsRead ==
    /\ UNCHANGED <<keyVars, bucketVars, permVars, provVars, concVars, objAside>>
    /\ \E config \in OdsConfigs :
       \E out \in GetObjectOutcomes(s3Store, [Bucket |-> ValueString(config.bucket),
                                              Key |-> ValueString(config.key)]) :
         /\ odsStep' = OdsStep("Read", config,
                               CASE out.reply = "ok" -> NoDiag
                                 [] out.reply = "body_error" -> "Failed to Read Object Body"
                                 [] OTHER -> "Failed to Retrieve Object",
                               <<Call("GetObject", out.reply)>>)
         /\ odsState' = IF out.reply = "ok" THEN OdsModel(config, out) ELSE Absent
    /\ UNCHANGED <<s3Store, objState, objStep>>

(***************************************************************************)
(* GarageProvider.Configure and the Configure of each resource and data    *)
(* source.                                                                 *)
(***************************************************************************)
NumEndpoints == 3
EndpointPool ==
    <<<<"h", ":", "3", "9", "0", "3">>,
      <<"h", ":", "8", "0", "8", "0">>,
      <<>>,
      <<"h", ":", "3", "9", "0", "3", "0">>,
      <<"g", ":", "3", "9", "0", "3", "/", "v">>>>
DeprecatedEndpoints == {EndpointPool[i] : i \in 1..NumEndpoints}
BlockAdminEndpoints == {<<"a", ":", "3", "9", "0", "3">>, <<>>}
BlockS3Endpoints == {<<"s", ":", "3", "9", "0", "0">>, <<>>}
Tokens == {<<"t">>}
S3Credentials == {<<"c">>}

TextAttrs(S) == {TextNull} \cup {TextValue(s) : s \in S}

EndpointsModels == [Admin : TextAttrs(BlockAdminEndpoints), S3 : TextAttrs(BlockS3Endpoints)]

\* The provider blocks Configure can be given: every attribute is Optional.
ProviderConfigs ==
    [Endpoint : TextAttrs(DeprecatedEndpoints), Token : TextAttrs(Tokens),
     Endpoints : Ptrs(EndpointsModels),
     AccessKey : TextAttrs(S3Credentials), SecretKey : TextAttrs(S3Credentials)]

\* The environment of the provider process: os.Getenv answers "" for a
\* variable that is not set.
Environments ==
    [GARAGE_ENDPOINT : {<<>>, <<"e", ":", "3", "9", "0", "3">>},
     GARAGE_TOKEN : {<<>>, <<"u">>},
     GARAGE_ACCESS_KEY : {<<>>, <<"d">>},
     GARAGE_SECRET_KEY : {<<>>, <<"d">>}]

Getenv(env, name) == env[name]

replacePort(endpoint, oldPort, newPort) ==
    Replace1(endpoint, <<":">> \o oldPort, <<":">> \o newPort)

\* endpoints.admin and endpoints.s3 as Configure first reads them.
BlockAdmin(config) ==
    IF config.Endpoints # None /\ ~IsNull(Deref(config.Endpoints).Admin)
    THEN ValueString(Deref(config.Endpoints).Admin) ELSE <<>>

BlockS3(config) ==
    IF config.Endpoints # None /\ ~IsNull(Deref(config.Endpoints).S3)
    THEN ValueString(Deref(config.Endpoints).S3) ELSE <<>>

\* Whether Configure falls back to the deprecated endpoint.
UsesDeprecated(config) == BlockAdmin(config) = <<>> /\ ~IsNull(config.Endpoint)

ProviderAdminEndpointDeprecatedFirst(config) ==
    IF ~IsNull(config.Endpoint) THEN ValueString(config.Endpoint) ELSE BlockAdmin(config)

\* The admin endpoint Configure resolves.
ProviderAdminEndpoint(config) ==
    IF UsesDeprecated(config) THEN ValueString(config.Endpoint) ELSE BlockAdmin(config)

\* The S3 endpoint Configure resolves.
ProviderS3Endpoint(config) ==
    IF UsesDeprecated(config) /\ BlockS3(config) = <<>>
    THEN replacePort(ValueString(config.Endpoint), <<"3", "9", "0", "3">>,
                     <<"3", "9", "0", "0">>)
    ELSE BlockS3(config)

ProviderAccessKey(config, env) ==
    IF ValueString(config.AccessKey) = <<>> THEN Getenv(env, "GARAGE_ACCESS_KEY")
    ELSE ValueString(config.AccessKey)

ProviderSecretKey(config, env) ==
    IF ValueString(config.SecretKey) = <<>> THEN Getenv(env, "GARAGE_SECRET_KEY")
    ELSE ValueString(config.SecretKey)

ProviderMissingAdminNever(adminEndpoint) == FALSE

ProviderMissingAdmin(adminEndpoint) == adminEndpoint = <<>>

\* The provider data Configure stores for resources and data sources.
ProviderDataModel(config, env) ==
    [Endpoint |-> TextValue(ProviderAdminEndpoint(config)),
     Token |-> config.Token,
     AccessKey |-> TextValue(ProviderAccessKey(config, env)),
     SecretKey |-> TextValue(ProviderSecretKey(config, env)),
     Endpoints |-> Some([Admin |-> TextValue(ProviderAdminEndpoint(config)),
                         S3 |-> TextValue(ProviderS3Endpoint(config))])]

\* A resource or data source instance: whether its Configure ran with
\* provider data, the diagnostic it then added, and the client it holds.
Unconfigured == [ran |-> FALSE, diag |-> NoDiag, client |-> None]
Configured(diag, client) == [ran |-> TRUE, diag |-> diag, client |-> client]

ProvStep(op, config, env, diag) == [op |-> op, config |-> config, env |-> env, diag |-> diag]

ProvNoStep ==
    ProvStep("none", [Endpoint |-> TextNull, Token |-> TextNull, Endpoints |-> None,
                      AccessKey |-> TextNull, SecretKey |-> TextNull],
             [GARAGE_ENDPOINT |-> <<>>, GARAGE_TOKEN |-> <<>>,
              GARAGE_ACCESS_KEY |-> <<>>, GARAGE_SECRET_KEY |-> <<>>], NoDiag)

\* A provider process starts: its resources and data sources are new
\* instances, and Configure runs on the provider block, once.
ProviderConfigure ==
    /\ UNCHANGED <<keyVars, bucketVars, permVars, objVars, concVars>>
    /\ provStep.op = "none"
    /\ \E config \in ProviderConfigs, env \in Environments :
         IF ProviderMissingAdmin(ProviderAdminEndpoint(config))
         THEN /\ provStep' = ProvStep("Configure", config, env, "Missing Admin Endpoint")
              /\ providerData' = None
         ELSE /\ provStep' = ProvStep("Configure", config, env, NoDiag)
              /\ providerData' = Some(ProviderDataModel(config, env))
    /\ keyClient' = Unconfigured
    /\ dsClient' = Unconfigured
    /\ objS3Client' = Unconfigured
    /\ odsS3Client' = Unconfigured

\* The admin endpoint KeyResource.Configure and BucketDataSource.Configure
\* resolve from the provider data.
ResourceAdminEndpoint(data) ==
    IF data.Endpoints # None /\ ~IsNull(Deref(data.Endpoints).Admin)
    THEN ValueString(Deref(data.Endpoints).Admin)
    ELSE IF ~IsNull(data.Endpoint) THEN ValueString(data.Endpoint)
    ELSE <<>>

\* client.NewClient(adminEndpoint, token)
NewClient(endpoint, token) == [endpoint |-> endpoint, token |-> token]

AdminConfigured(data) ==
    IF ResourceAdminEndpoint(data) = <<>>
    THEN Configured("Missing Admin Endpoint", None)
    ELSE Configured(NoDiag, Some(NewClient(ResourceAdminEndpoint(data),
                                           ValueString(data.Token))))

KeyConfigure ==
    /\ UNCHANGED <<keyVars, bucketVars, permVars, objVars, concVars>>
    /\ keyClient' = IF providerData = None THEN keyClient
                    ELSE AdminConfigured(Deref(providerData))
    /\ UNCHANGED <<provStep, providerData, dsClient, objS3Client, odsS3Client>>

BucketDsConfigure ==
    /\ UNCHANGED <<keyVars, bucketVars, permVars, objVars, concVars>>
    /\ dsClient' = IF providerData = None THEN dsClient
                   ELSE AdminConfigured(Deref(providerData))
    /\ UNCHANGED <<provStep, providerData, keyClient, objS3Client, odsS3Client>>

\* s3.NewFromConfig with static credentials and a base endpoint.
NewS3Client(endpoint, accessKey, secretKey) ==
    [BaseEndpoint |-> endpoint, AccessKey |-> accessKey, SecretKey |-> secretKey]

S3Configured(data) ==
    IF ValueString(Deref(data.Endpoints).S3) = <<>>
    THEN Configured("Missing S3 Endpoint", None)
    ELSE Configured(NoDiag, Some(NewS3Client(ValueString(Deref(data.Endpoints).S3),
                                             ValueString(data.AccessKey),
                                             ValueString(data.SecretKey))))

ObjectConfigure ==
    /\ UNCHANGED <<keyVars, bucketVars, permVars, objVars, concVars>>
    /\ objS3Client' = IF providerData = None THEN objS3Client
                      ELSE S3Configured(Deref(providerData))
    /\ UNCHANGED <<provStep, providerData, keyClient, dsClient, odsS3Client>>

ObjectDsConfigure ==
    /\ UNCHANGED <<keyVars, bucketVars, permVars, objVars, concVars>>
    /\ odsS3Client' = IF providerData = None THEN odsS3Client
                      ELSE S3Configured(Deref(providerData))
    /\ UNCHANGED <<provStep, providerData, keyClient, dsClient, objS3Client>>

(***************************************************************************)
(* Lifecycle steps run concurrently.  Terraform applies resources that do  *)
(* not depend on each other in parallel, so the handlers of two            *)
(* garage_object resources run at the same time, each on an instance       *)
(* configured from the same provider data.  A handler is cut at its remote *)
(* call: what it does before, the call, and what it does with the answer.  *)
(***************************************************************************)
ConcResources == {"r1", "r2"}

\* The plans of the two resources: the same bucket and key, the body given
\* as content.
ConcPlans ==
    {p \in ObjectPlans : /\ ValueString(p.key) = <<"k">>
                         /\ IsNull(p.source) /\ ~IsNull(p.content)
                         /\ IsUnknown(p.content_type)}

\* The provider blocks the shared provider data comes from.
SharedProviderConfigs ==
    {c \in ProviderConfigs : /\ IsNull(c.Endpoint) /\ ~IsNull(c.Token)
                             /\ ~IsNull(c.AccessKey) /\ ~IsNull(c.SecretKey)
                             /\ BlockAdmin(c) # <<>>}

NoEnvironment ==
    [GARAGE_ENDPOINT |-> <<>>, GARAGE_TOKEN |-> <<>>,
     GARAGE_ACCESS_KEY |-> <<>>, GARAGE_SECRET_KEY |-> <<>>]

\* The locals of a running handler: where it is, its plan, and the answer
\* of its remote call.
Response(reply, etag, contentType) ==
    [reply |-> reply, ETag |-> etag, ContentType |-> contentType]
NoResponse == Response("none", None, None)
Handler(pc, op, plan, out) == [pc |-> pc, op |-> op, plan |-> plan, out |-> out]
HandlerIdle == Handler("idle", "none", Absent, NoResponse)

\* What a step reported when it ended.
Report(op, diag) == [op |-> op, diag |-> diag]
NoReport == Report("none", NoDiag)

\* Configure of the instance that serves resource r.
ConcConfigure(r) ==
    /\ UNCHANGED <<keyVars, bucketVars, permVars, objVars, provVars>>
    /\ running[r].pc = "idle"
    /\ providerData # None
    /\ s3Client' = [s3Client EXCEPT ![r] = S3Configured(Deref(providerData))]
    /\ UNCHANGED <<running, tracked, reported, serial>>

\* The steps Terraform can ask of resource r: Create while it is not
\* tracked, Read and Delete while it is.
HandlerOps(r) == IF tracked[r] = Absent THEN {"Create"} ELSE {"Read", "Delete"}

\* A handler starts: it reads its plan or its state into locals.
ConcBegin(r) ==
    /\ UNCHANGED <<keyVars, bucketVars, permVars, objVars, provVars>>
    /\ running[r].pc = "idle"
    /\ s3Client[r].ran /\ s3Client[r].client # None
    /\ \E op \in HandlerOps(r) :
         \E plan \in IF op = "Create" THEN ConcPlans ELSE {tracked[r]} :
           running' = [running EXCEPT ![r] = Handler("request", op, plan, NoResponse)]
    /\ UNCHANGED <<s3Client, tracked, reported, serial>>

HandlerPutInputShared(r) ==
    LET others == {g \in ConcResources \ {r} :
                     running[g].pc = "request" /\ running[g].op = "Create"}
        h == IF others = {} THEN r ELSE CHOOSE g \in others : TRUE
    IN PutObjectInput(running[h].plan, ObjContent(running[h].plan))

\* The input a handler hands to PutObject, made from its own plan.
HandlerPutInput(r) ==
    PutObjectInput(running[r].plan, ObjContent(running[r].plan))

\* The input of HeadObject and DeleteObject, made from the handler's state.
HandlerKeyInput(r) ==
    [Bucket |-> ValueString(running[r].plan.bucket),
     Key |-> ValueString(running[r].plan.key)]

\* The step of resource r run alone and whole on the serial record s, its
\* remote call answering with reply.
SerialStep(s, r, op, plan, reply) ==
    LET in == [Bucket |-> ValueString(plan.bucket), Key |-> ValueString(plan.key)]
    IN
    CASE op = "Create" ->
           LET c == ObjContent(plan)
               out == CHOOSE o \in PutObjectOutcomes(s.store, PutObjectInput(plan, c)) :
                        o.reply = reply
           IN [store |-> out.store,
               tracked |-> [s.tracked EXCEPT ![r] =
                              IF reply = "ok" THEN ObjCreatedModel(plan, c, out) ELSE @],
               reported |-> [s.reported EXCEPT ![r] =
                               Report(op, IF reply = "ok" THEN NoDiag
                                          ELSE "Object Upload Failed")]]
      [] op = "Read" ->
           LET out == CHOOSE o \in HeadObjectOutcomes(s.store, in) : o.reply = reply
           IN [store |-> s.store,
               tracked |-> [s.tracked EXCEPT ![r] =
                              IF reply = "ok" THEN ObjReadModel(@, out)
                              ELSE ObjReadGone(@, out)],
               reported |-> [s.reported EXCEPT ![r] = Report(op, NoDiag)]]
      [] op = "Delete" ->
           LET out == CHOOSE o \in DeleteObjectOutcomes(s.store, in) : o.reply = reply
           IN [store |-> out.store,
               tracked |-> [s.tracked EXCEPT ![r] = IF reply = "ok" THEN Absent ELSE @],
               reported |-> [s.reported EXCEPT ![r] =
                               Report(op, IF reply = "ok" THEN NoDiag
                                          ELSE "Object Deletion Failed")]]

\* The remote call of a running handler, answered by the store as it is at
\* that moment.
ConcCall(r) ==
    /\ UNCHANGED <<keyVars, bucketVars, permVars, provVars>>
    /\ running[r].pc = "request"
    /\ LET h == running[r] IN
       \E out \in CASE h.op = "Create" ->
                         {[reply |-> o.reply, store |-> o.store,
                           ETag |-> o.ETag, ContentType |-> None]
                            : o \in PutObjectOutcomes(s3Store, HandlerPutInput(r))}
                    [] h.op = "Read" ->
                         {[reply |-> o.reply, store |-> s3Store,
                           ETag |-> o.ETag, ContentType |-> o.ContentType]
                            : o \in HeadObjectOutcomes(s3Store, HandlerKeyInput(r))}
                    [] h.op = "Delete" ->
                         {[reply |-> o.reply, store |-> o.store,
                           ETag |-> None, ContentType |-> None]
                            : o \in DeleteObjectOutcomes(s3Store, HandlerKeyInput(r))} :
         /\ s3Store' = out.store
         /\ running' = [running EXCEPT ![r] =
                          Handler("response", h.op, h.plan,
                                  Response(out.reply, out.ETag, out.ContentType))]
         /\ serial' = SerialStep(serial, r, h.op, h.plan, out.reply)
    /\ UNCHANGED <<objState, objStep, odsState, odsStep, objAside, s3Client, tracked, reported>>

\* The handler ends: it sets the state and the diagnostics of its response
\* from its locals.
ConcFinish(r) ==
    /\ UNCHANGED <<keyVars, bucketVars, permVars, objVars, provVars>>
    /\ running[r].pc = "response"
    /\ LET h == running[r] IN
       /\ tracked' = [tracked EXCEPT ![r] =
            CASE h.op = "Create" ->
                   IF h.out.reply = "ok"
                   THEN ObjCreatedModel(h.plan, ObjContent(h.plan), h.out) ELSE @
              [] h.op = "Read" ->
                   IF h.out.reply = "ok" THEN ObjReadModel(h.plan, h.out)
                   ELSE ObjReadGone(h.plan, h.out)
              [] h.op = "Delete" ->
                   IF h.out.reply = "ok" THEN Absent ELSE @]
       /\ reported' = [reported EXCEPT ![r] =
            Report(h.op, CASE h.out.reply = "ok" \/ h.op = "Read" -> NoDiag
                           [] h.op = "Create" -> "Object Upload Failed"
                           [] h.op = "Delete" -> "Object Deletion Failed")]
    /\ running' = [running EXCEPT ![r] = HandlerIdle]
    /\ UNCHANGED <<s3Client, serial>>

(***************************************************************************)
(* Specifications.                                                         *)
(***************************************************************************)
KeyInit ==
    /\ srvKeys = [id \in KeyIDs |-> None]
    /\ keyState = Absent
    /\ keyStep = Step("none", Absent, NoDiag, <<>>)
    /\ keySecret0 = StringNull
    /\ keyReply = "none"

BucketInit ==
    /\ srvBuckets = [id \in BucketIDs |-> None]
    /\ brState = Absent
    /\ brUpdate = None
    /\ dsState = Absent
    /\ dsStep = DsNoStep

PermInit ==
    /\ srvPerms = {}
    /\ permStep = PermStep("none", "", "", [read |-> FALSE, write |-> FALSE,
                                            owner |-> FALSE], FALSE, {})

ObjInit ==
    /\ s3Store = {}
    /\ objState = Absent
    /\ objStep = ObjNoStep
    /\ odsState = Absent
    /\ odsStep = OdsNoStep
    /\ objAside = NothingAside

ProvInit ==
    /\ provStep = ProvNoStep
    /\ providerData = None
    /\ keyClient = Unconfigured
    /\ dsClient = Unconfigured
    /\ objS3Client = Unconfigured
    /\ odsS3Client = Unconfigured

ConcInit ==
    /\ s3Client = [r \in ConcResources |-> Unconfigured]
    /\ running = [r \in ConcResources |-> HandlerIdle]
    /\ tracked = [r \in ConcResources |-> Absent]
    /\ reported = [r \in ConcResources |-> NoReport]
    /\ serial = [store |-> {}, tracked |-> [r \in ConcResources |-> Absent],
                 reported |-> [r \in ConcResources |-> NoReport]]

Init == KeyInit /\ BucketInit /\ PermInit /\ ObjInit /\ ProvInit /\ ConcInit

\* The provider's Configure has run and stored the provider data.
ProviderConfiguredInit ==
    /\ \E config \in SharedProviderConfigs :
         /\ provStep = ProvStep("Configure", config, NoEnvironment, NoDiag)
         /\ providerData = Some(ProviderDataModel(config, NoEnvironment))
    /\ keyClient = Unconfigured
    /\ dsClient = Unconfigured
    /\ objS3Client = Unconfigured
    /\ odsS3Client = Unconfigured

KeyNext ==
    \/ KeyCreate
    \/ KeyRead
    \/ KeyUpdate
    \/ KeyDelete
    \/ AdminImportKey
    \/ AdminDeleteKey

BucketNext ==
    \/ DsRead
    \/ BucketCreate
    \/ BucketDelete
    \/ AdminCreateBucket
    \/ AdminAddBucketAlias
    \/ AdminRemoveBucketAlias
    \/ AdminDeleteBucket

PermNext ==
    \/ PermissionSet
    \/ PermissionClear

\* The garage_key resource and the cluster's keys.
SpecKey == Init /\ [][KeyNext]_vars

KeyAloneNext ==
    \/ KeyCreate
    \/ KeyRead
    \/ KeyUpdate
    \/ KeyDelete

\* The garage_key resource on a cluster nobody else changes.
SpecKeyAlone == Init /\ [][KeyAloneNext]_vars

\* The garage_bucket data source, the garage_bucket resource and the
\* cluster's buckets.
SpecBucket == Init /\ [][BucketNext]_vars

BucketCfgNext ==
    \/ DsRead
    \/ BucketCreate
    \/ BucketUpdate
    \/ BucketDelete

\* The same with the cluster's other users left out and the bucket's website
\* settings and quotas updated.
SpecBucketCfg == Init /\ [][BucketCfgNext]_vars

\* The cluster's bucket permissions.
SpecPerm == Init /\ [][PermNext]_vars

ObjectNext ==
    \/ ObjectCreate
    \/ ObjectRead
    \/ ObjectUpdate
    \/ ObjectDelete
    \/ ObjectDsRead
    \/ StoreObjectRemoved

\* The garage_object resource, the garage_object data source and the store.
SpecObject == Init /\ [][ObjectNext]_vars

ObjectWritesNext ==
    \/ ObjectCreate
    \/ ObjectUpdate
    \/ ObjectDelete

\* The garage_object resource alone on an empty store: every object of the
\* store was written by it.
SpecObjectWrites == Init /\ [][ObjectWritesNext]_vars

ObjectImportNext ==
    \/ ObjectImportState
    \/ ObjectRead

\* The garage_object resource imported, and read after the import.
SpecObjectImport == Init /\ [][ObjectImportNext]_vars

\* terraform import is a command of its own.  It is run when the last step
\* left no error behind, it reads no data source, and it calls Read on what
\* ImportState returned before anything else is done with the resource.
ImportStarts == objStep.diag = NoDiag /\ odsStep = OdsNoStep
Importing == objStep.op = "ImportState"
ImportAwaitsRead == Importing /\ objState # Absent

ObjectIDNext ==
    \/ ~ImportAwaitsRead /\ ObjectCreate
    \/ ObjectRead
    \/ ~ImportAwaitsRead /\ ObjectUpdate
    \/ ImportStarts /\ ObjectImportState
    \/ ~Importing /\ ObjectDsRead

\* The garage_object resource created or imported, then read and updated,
\* next to the garage_object data source.
SpecObjectID == Init /\ [][ObjectIDNext]_vars

ObjectReimportNext ==
    \/ objStep = ObjNoStep /\ objAside = NothingAside /\ ObjectCreate
    \/ objStep.op = "Create" /\ ObjectStateSetAside
    \/ objAside # NothingAside /\ ImportStarts /\ ObjectImportState
    \/ objAside # NothingAside /\ ObjectRead

\* The garage_object resource created, then imported into an empty state and
\* read, as the acceptance test's import step does.
SpecObjectReimport == Init /\ [][ObjectReimportNext]_vars

ProviderNext ==
    \/ ProviderConfigure
    \/ KeyConfigure
    \/ BucketDsConfigure
    \/ ObjectConfigure
    \/ ObjectDsConfigure

\* The configuration of the provider and of its resources and data sources.
SpecProvider == Init /\ [][ProviderNext]_vars

ConcurrentNext ==
    \/ KeyConfigure
    \/ \E r \in ConcResources :
          \/ ConcConfigure(r)
          \/ ConcBegin(r)
          \/ ConcCall(r)
          \/ ConcFinish(r)

\* Two garage_object resources whose lifecycle steps run at the same time,
\* after the provider was configured; the key resource's instance is
\* configured from the same provider data.
ConcurrentInit ==
    KeyInit /\ BucketInit /\ PermInit /\ ObjInit /\ ProviderConfiguredInit /\ ConcInit

SpecConcurrent == ConcurrentInit /\ [][ConcurrentNext]_vars

\* The lifecycle steps of the key resource, of the bucket data source and of
\* the object resource and data source.  The three act on disjoint variables
\* and leave each other's unchanged, so each is run from the initial state of
\* the other two.
LifecycleNext ==
    \/ BucketInit /\ ObjInit /\ KeyNext
    \/ KeyInit /\ ObjInit /\ (DsRead \/ BucketCreate \/ BucketDelete)
    \/ KeyInit /\ BucketInit /\ ObjectNext

SpecLifecycle == Init /\ [][LifecycleNext]_vars

(***************************************************************************)
(* Properties.                                                             *)
(***************************************************************************)

\* C1: in KeyResource.Create, when exactly one of id and secret_access_key is
\* supplied (known and non-null), the step ends with "Invalid Configuration",
\* calls neither ImportKey nor CreateKey, and records no state.
C1_OneOfIdSecretRejected ==
    (keyStep.op = "Create" /\ hasID(keyStep.plan) # hasSecret(keyStep.plan))
        => /\ keyStep.diag = "Invalid Configuration"
           /\ keyStep.calls = <<>>
           /\ keyState = Absent

C1_Witness ==
    /\ keyStep.op = "Create"
    /\ hasID(keyStep.plan) /\ ~hasSecret(keyStep.plan)
    /\ keyStep.diag = "Invalid Configuration"
    /\ \E id \in KeyIDs : KeyExists(srvKeys, id)

\* C2: one invocation of KeyResource.Create calls ImportKey exactly when both
\* id and secret_access_key are supplied, CreateKey exactly when neither is,
\* and never both.
C2_EntryPathsExclusive ==
    keyStep.op = "Create"
        => /\ "ImportKey" \in Range(keyStep.calls)
                <=> (hasID(keyStep.plan) /\ hasSecret(keyStep.plan))
           /\ "CreateKey" \in Range(keyStep.calls)
                <=> (~hasID(keyStep.plan) /\ ~hasSecret(keyStep.plan))
           /\ ~("ImportKey" \in Range(keyStep.calls)
                /\ "CreateKey" \in Range(keyStep.calls))
           /\ Len(keyStep.calls) <= 1

C2_Witness ==
    /\ keyStep.op = "Create"
    /\ keyStep.calls = <<"ImportKey">>
    /\ keyStep.diag = NoDiag
    /\ keyState # Absent

\* C3: after a successful Create, every Read and Update leaves
\* secret_access_key in the tracked state equal to the value Create recorded.
C3_SecretKept == keyState # Absent => keyState.secret = keySecret0

C3_Witness ==
    /\ keyStep.op = "Read"
    /\ keyStep.diag = NoDiag
    /\ keyState # Absent
    /\ ~IsNull(keyState.secret) /\ ~IsUnknown(keyState.secret)
    /\ keyState.secret = keySecret0

\* C4: in BucketDataSource.Read, when both id and global_alias are null, the
\* step ends with "Missing Required Attribute", sends no GetBucketInfo request
\* and sets no state.
C4_NeitherGivenRejected ==
    (dsStep.op = "Read" /\ IsNull(dsStep.cfg.id) /\ IsNull(dsStep.cfg.global_alias))
        => /\ dsStep.diag = "Missing Required Attribute"
           /\ dsStep.req = None
           /\ dsState = Absent

C4_Witness ==
    /\ dsStep.op = "Read"
    /\ IsNull(dsStep.cfg.id) /\ IsNull(dsStep.cfg.global_alias)
    /\ dsStep.diag = "Missing Required Attribute"
    /\ \E id \in BucketIDs : BucketExists(srvBuckets, id)

\* C5: every GetBucketInfo request BucketDataSource.Read sends carries the ID
\* or the global alias, never both and never neither.
C5_RequestHasExactlyOneKey ==
    dsStep.req # None
        => (Deref(dsStep.req).ID # None) # (Deref(dsStep.req).GlobalAlias # None)

\* C6: a lookup by global_alias = X of a bucket that has the alias X sets a
\* state whose global_alias is X, and whose global_aliases is exactly [X] when
\* X is the bucket's only alias.
C6_LookupByAliasReturnsIt ==
    (dsStep.op = "Read" /\ dsStep.diag = NoDiag
        /\ IsNull(dsStep.cfg.id) /\ ~IsNull(dsStep.cfg.global_alias))
        => /\ dsState.global_alias = dsStep.cfg.global_alias
           /\ Len(Deref(srvBuckets[ValueString(dsState.id)]).GlobalAliases) = 1
                => dsState.global_aliases = ListValue(<<dsStep.cfg.global_alias>>)

\* The tracked bucket is on the cluster as the resource created it: it exists
\* and has the alias it was created with.
TrackedBucketIntact ==
    /\ brState # Absent
    /\ BucketExists(srvBuckets, ValueString(brState.id))
    /\ ValueString(brState.global_alias)
         \in Range(Deref(srvBuckets[ValueString(brState.id)]).GlobalAliases)

\* The last Read looked the tracked bucket up, by its ID or by its alias.
ReadOfTrackedBucket ==
    /\ dsStep.op = "Read"
    /\ dsStep.diag = NoDiag
    /\ \/ dsStep.cfg.id = brState.id /\ IsNull(dsStep.cfg.global_alias)
       \/ dsStep.cfg.global_alias = brState.global_alias /\ IsNull(dsStep.cfg.id)

\* C7: after a bucket is created with alias A, every read of it (by ID or by
\* alias, with no intervening change) returns a record whose aliases contain A
\* and whose ID is non-empty and is the ID the bucket resource holds, so the
\* same at every read.
C7_CreateReadRoundTrip ==
    (TrackedBucketIntact /\ ReadOfTrackedBucket)
        => /\ dsState # Absent
           /\ dsState.id = brState.id
           /\ ValueString(dsState.id) # ""
           /\ brState.global_alias \in Range(dsState.global_aliases.v)

C7_Witness ==
    /\ TrackedBucketIntact
    /\ ReadOfTrackedBucket
    /\ IsNull(dsStep.cfg.id)
    /\ dsState.id = brState.id
    /\ Len(dsState.global_aliases.v) = 2

\* C8: when a bucket is read, max_size and max_objects are null when the
\* record has no quotas object, each is null exactly when its field is absent
\* when it has one (and the field's value otherwise, 0 included), and the
\* website documents are null exactly when the record has no website config.
C8_AbsentIsNullNotZero ==
    dsState # Absent
        => LET b == Deref(srvBuckets[ValueString(dsState.id)]) IN
           /\ b.Quotas = None
                => IsNull(dsState.max_size) /\ IsNull(dsState.max_objects)
           /\ b.Quotas # None
                => /\ IsNull(dsState.max_size) <=> Deref(b.Quotas).MaxSize = None
                   /\ IsNull(dsState.max_objects) <=> Deref(b.Quotas).MaxObjects = None
                   /\ Deref(b.Quotas).MaxSize # None
                        => dsState.max_size = Int64Value(Deref(Deref(b.Quotas).MaxSize))
                   /\ Deref(b.Quotas).MaxObjects # None
                        => dsState.max_objects
                             = Int64Value(Deref(Deref(b.Quotas).MaxObjects))
           /\ b.WebsiteConfig = None
                <=> IsNull(dsState.website_index_document)
           /\ b.WebsiteConfig = None
                <=> IsNull(dsState.website_error_document)

C8_Witness ==
    /\ dsState # Absent
    /\ LET b == Deref(srvBuckets[ValueString(dsState.id)]) IN
       /\ b.Quotas = Some([MaxSize |-> Some(0), MaxObjects |-> None])
       /\ b.WebsiteConfig = None
    /\ dsState.max_size = Int64Value(0)
    /\ IsNull(dsState.max_objects)

\* C9: for a bucket with website hosting enabled, an update that supplies
\* only max_size leaves website_enabled and the index and error documents, as
\* the next read returns them, equal to their values before the update.
C9_QuotaUpdateKeepsWebsite ==
    (brUpdate # None /\ dsState # Absent /\ dsState.id = brState.id)
        => /\ dsState.website_enabled = BoolValue(Deref(brUpdate).WebsiteAccess)
           /\ Deref(brUpdate).WebsiteConfig # None
           /\ dsState.website_index_document
                = StringValue(Deref(Deref(brUpdate).WebsiteConfig).IndexDocument)
           /\ dsState.website_error_document
                = StringValue(Deref(Deref(brUpdate).WebsiteConfig).ErrorDocument)

C9_Witness ==
    /\ brUpdate # None
    /\ dsState # Absent
    /\ dsState.id = brState.id
    /\ dsState.website_enabled = BoolValue(TRUE)
    /\ dsState.max_size = Int64Value(1)

\* C10: granting the same capabilities for the same (bucket, key) twice in
\* succession leaves the permission triples as they were after the first
\* grant: the pair has one triple, with the granted capabilities.
C10_GrantIdempotent ==
    (permStep.op = "Set" /\ permStep.repeated)
        => /\ srvPerms = permStep.before
           /\ PermsOf(srvPerms, permStep.bucket, permStep.key)
                = {[bucket |-> permStep.bucket, key |-> permStep.key,
                    caps |-> permStep.caps]}

C10_Witness ==
    /\ permStep.op = "Set"
    /\ permStep.repeated
    /\ permStep.caps = [read |-> TRUE, write |-> TRUE, owner |-> FALSE]
    /\ Cardinality(srvPerms) = 2

\* C11: GarageObjectResource.ImportState cuts the import ID at its first "/":
\* for an ID with a "/", bucket is the text before the first "/", key is all
\* that follows it (later "/" kept) and id is the ID unchanged; an ID with no
\* "/" ends with "Invalid Import ID" and sets no attribute.
C11_ImportSplitsAtFirstSlash ==
    objStep.op = "ImportState"
        => IF "/" \in Range(objStep.importID)
           THEN /\ objStep.diag = NoDiag
                /\ objState # Absent
                /\ "/" \notin Range(ValueString(objState.bucket))
                /\ ValueString(objState.bucket) \o <<"/">> \o ValueString(objState.key)
                     = objStep.importID
                /\ objState.id = TextValue(objStep.importID)
           ELSE /\ objStep.diag = "Invalid Import ID"
                /\ objState = Absent

C11_Witness ==
    /\ objStep.op = "ImportState"
    /\ objStep.importID = <<"b", "/", "k", "/">>
    /\ objState # Absent
    /\ objState.bucket = TextValue(<<"b">>)
    /\ objState.key = TextValue(<<"k", "/">>)

\* The replies of the remote calls of a step.
Replies(calls) == {calls[i].reply : i \in 1..Len(calls)}

\* C12: a Read that finds the resource gone drops the tracked record and
\* reports no error: when GetKeyInfo finds no key in KeyResource.Read, and
\* when HeadObject finds no object in GarageObjectResource.Read, the resource
\* leaves the state and the step has no diagnostic.
C12_ReadNotFoundDropsState ==
    /\ (keyStep.op = "Read" /\ keyReply = "not_found")
          => (keyStep.diag = NoDiag /\ keyState = Absent)
    /\ (objStep.op = "Read" /\ "not_found" \in Replies(objStep.calls))
          => (objStep.diag = NoDiag /\ objState = Absent)

C12_Witness ==
    /\ objStep.op = "Read"
    /\ objStep.calls = <<Call("HeadObject", "not_found")>>
    /\ objState = Absent
    /\ s3Store # {}

\* C13: a remote call that fails other than by not-found makes its step end
\* with an error diagnostic and leaves the tracked state as it was: a key or
\* object that was tracked stays tracked (a key with the state it had), a
\* failed Create tracks nothing, a failed data source Read sets no state.
C13_FailureReportedStateKept ==
    /\ keyReply = "error"
          => /\ keyStep.diag # NoDiag
             /\ keyStep.op = "Create" => keyState = Absent
             /\ keyStep.op \in {"Read", "Delete"} => keyState = keyStep.plan
    /\ "error" \in Replies(objStep.calls)
          => /\ objStep.diag # NoDiag
             /\ objStep.op = "Create" => objState = Absent
             /\ objStep.op \in {"Read", "Update", "Delete"} => objState # Absent
    /\ "error" \in Replies(odsStep.calls)
          => (odsStep.diag # NoDiag /\ odsState = Absent)
    /\ dsStep.diag = "Client Error" => dsState = Absent

\* A step's calls hold no operation twice, and none follows a failed one.
NoRetry(calls) ==
    /\ \A i, j \in 1..Len(calls) : calls[i].op = calls[j].op => i = j
    /\ \A i \in 1..Len(calls) : calls[i].reply # "ok" => i = Len(calls)

NoAdminEndpointGiven(config) ==
    /\ \/ config.Endpoints = None
       \/ IsNull(Deref(config.Endpoints).Admin)
       \/ ValueString(Deref(config.Endpoints).Admin) = <<>>
    /\ IsNull(config.Endpoint) \/ ValueString(config.Endpoint) = <<>>

EndpointHost(e) == SplitAtLast(e, <<":">>)[1]
EndpointPort(e) ==
    IF Len(SplitAtLast(e, <<":">>)) = 2 THEN SplitAtLast(e, <<":">>)[2] ELSE <<>>

\* The provider block has the deprecated endpoint (a non-empty value) and no
\* endpoints block.
OnlyDeprecatedEndpoint(config) ==
    /\ config.Endpoints = None
    /\ ~IsNull(config.Endpoint)
    /\ ValueString(config.Endpoint) # <<>>

\* C16: with the deprecated endpoint alone, GarageProvider.Configure takes it
\* as the admin endpoint and derives the S3 endpoint of the same host on port
\* 3900, whatever the admin endpoint is, and the object resource and the
\* object data source configure without a diagnostic against that endpoint.
C16_DeprecatedEndpointGivesS3Port ==
    (provStep.op = "Configure" /\ OnlyDeprecatedEndpoint(provStep.config))
        => /\ provStep.diag = NoDiag
           /\ providerData # None
           /\ Deref(Deref(providerData).Endpoints).Admin = provStep.config.Endpoint
           /\ LET s3 == ValueString(Deref(Deref(providerData).Endpoints).S3) IN
              /\ EndpointHost(s3) = EndpointHost(ValueString(provStep.config.Endpoint))
              /\ EndpointPort(s3) = <<"3", "9", "0", "0">>
              /\ objS3Client.ran
                   => /\ objS3Client.diag = NoDiag
                      /\ Deref(objS3Client.client).BaseEndpoint = s3
              /\ odsS3Client.ran
                   => /\ odsS3Client.diag = NoDiag
                      /\ Deref(odsS3Client.client).BaseEndpoint = s3

\* The admin endpoint a provider block asks for: endpoints.admin when it is
\* set and not empty, the deprecated endpoint otherwise.
AdminEndpointAskedFor(config) ==
    IF /\ config.Endpoints # None
       /\ ~IsNull(Deref(config.Endpoints).Admin)
       /\ ValueString(Deref(config.Endpoints).Admin) # <<>>
    THEN ValueString(Deref(config.Endpoints).Admin)
    ELSE ValueString(config.Endpoint)

\* C17: for every provider block Configure accepts, the admin endpoint is
\* endpoints.admin when that is set and not empty and the deprecated endpoint
\* otherwise; the provider data holds it, not empty, as both Endpoint and
\* Endpoints.Admin, and the clients KeyResource.Configure and
\* BucketDataSource.Configure build use that same endpoint.
C17_EndpointsBlockTakesPrecedence ==
    (provStep.op = "Configure" /\ provStep.diag = NoDiag)
        => LET admin == AdminEndpointAskedFor(provStep.config) IN
           /\ admin # <<>>
           /\ providerData # None
           /\ Deref(providerData).Endpoint = TextValue(admin)
           /\ Deref(Deref(providerData).Endpoints).Admin = TextValue(admin)
           /\ keyClient.ran
                => keyClient.diag = NoDiag /\ Deref(keyClient.client).endpoint = admin
           /\ dsClient.ran
                => dsClient.diag = NoDiag /\ Deref(dsClient.client).endpoint = admin

C17_Witness ==
    /\ provStep.op = "Configure"
    /\ provStep.diag = NoDiag
    /\ provStep.config.Endpoint = TextValue(<<"h", ":", "8", "0", "8", "0">>)
    /\ provStep.config.Endpoints # None
    /\ Deref(provStep.config.Endpoints).Admin = TextValue(<<"a", ":", "3", "9", "0", "3">>)
    /\ keyClient.ran /\ dsClient.ran
    /\ Deref(keyClient.client).endpoint = <<"a", ":", "3", "9", "0", "3">>
    /\ Deref(dsClient.client).endpoint = <<"a", ":", "3", "9", "0", "3">>

\* The provider block names no endpoint and no token, and the environment
\* sets GARAGE_ENDPOINT and GARAGE_TOKEN.
ConfiguredByEnvironment(config, env) ==
    /\ IsNull(config.Endpoint) /\ config.Endpoints = None /\ IsNull(config.Token)
    /\ Getenv(env, "GARAGE_ENDPOINT") # <<>>
    /\ Getenv(env, "GARAGE_TOKEN") # <<>>

\* C18: with no endpoint and no token in the provider block and
\* GARAGE_ENDPOINT and GARAGE_TOKEN set in the environment,
\* GarageProvider.Configure succeeds and the admin clients use those two
\* values.
C18_EnvironmentConfiguresProvider ==
    (provStep.op = "Configure" /\ ConfiguredByEnvironment(provStep.config, provStep.env))
        => /\ provStep.diag = NoDiag
           /\ providerData # None
           /\ keyClient.ran
                => keyClient.client
                     = Some(NewClient(Getenv(provStep.env, "GARAGE_ENDPOINT"),
                                      Getenv(provStep.env, "GARAGE_TOKEN")))
           /\ dsClient.ran
                => dsClient.client
                     = Some(NewClient(Getenv(provStep.env, "GARAGE_ENDPOINT"),
                                      Getenv(provStep.env, "GARAGE_TOKEN")))

\* The content a plan asks to store: the file named by source, or content.
PlannedBody(plan) ==
    IF ~IsNull(plan.source) THEN FileSystem[ValueString(plan.source)]
    ELSE ValueString(plan.content)

\* C19: a successful GarageObjectResource.Update is a delete followed by a
\* create: afterwards the store holds the planned content, and nothing else,
\* at the planned (bucket, key), the state holds the new etag and id, and the
\* object the resource stored before is gone from where it was.
C19_UpdateDeletesThenCreates ==
    [][(objStep'.op = "Update" /\ objStep'.diag = NoDiag)
        => LET plan == objStep'.plan
               b == ValueString(plan.bucket)
               k == ValueString(plan.key)
           IN /\ \E o \in s3Store' : ObjectsAt(s3Store', b, k) = {o}
                                      /\ o.Body = PlannedBody(plan)
              /\ objState'.id = TextValue(b \o <<"/">> \o k)
              /\ objState'.etag = TextValue(ETagOf(PlannedBody(plan)))
              /\ (objState.bucket # plan.bucket \/ objState.key # plan.key)
                   => ObjectsAt(s3Store', ValueString(objState.bucket),
                                ValueString(objState.key)) = {}]_vars

\* The last step of the object resource created an object from content with
\* a content type given, and the data source then read the same (bucket, key).
CreatedThenReadBack ==
    /\ objStep.op = "Create" /\ objStep.diag = NoDiag
    /\ IsNull(objStep.plan.source) /\ ~IsNull(objStep.plan.content)
    /\ ~IsUnknown(objStep.plan.content_type)
    /\ odsStep.op = "Read" /\ odsStep.diag = NoDiag
    /\ odsStep.cfg.bucket = objStep.plan.bucket
    /\ odsStep.cfg.key = objStep.plan.key

\* C20: after the object resource creates (bucket, key) with content C and
\* content type T, the object data source's Read of the same (bucket, key)
\* returns body C, content_type T, an etag, a content_length and a
\* last_modified that are set, and id bucket/key.
C20_ObjectRoundTrip ==
    CreatedThenReadBack
        => /\ odsState # Absent
           /\ odsState.body = objStep.plan.content
           /\ odsState.content_type = objStep.plan.content_type
           /\ ~IsNull(odsState.etag)
           /\ ~IsNull(odsState.content_length)
           /\ ~IsNull(odsState.last_modified)
           /\ odsState.id = TextValue(ValueString(objStep.plan.bucket) \o <<"/">>
                                      \o ValueString(objStep.plan.key))

C20_Witness ==
    /\ CreatedThenReadBack
    /\ objStep.plan.content = TextValue(<<"x", "y">>)
    /\ objStep.plan.content_type = TextValue(<<"application/json">>)
    /\ objStep.plan.key = TextValue(<<"k", "/", "k">>)
    /\ odsState.body = TextValue(<<"x", "y">>)
    /\ odsState.content_length = Int64Value(2)

IsBucketSlashKey(state) ==
    ValueString(state.id) =
        ValueString(state.bucket) \o <<"/">> \o ValueString(state.key)

(***************************************************************************)
(* C21.  The composite id is bucket/key: in every tracked state of the     *)
(* object resource, however Create, Read, Update and ImportState made it,  *)
(* and in every result of the object data source, id is the bucket,        *)
(* a slash, and the key of that same state.                                *)
(***************************************************************************)
C21_IdIsBucketSlashKey ==
    /\ objState # Absent => IsBucketSlashKey(objState)
    /\ odsState # Absent => IsBucketSlashKey(odsState)

\* An object was updated to a key that holds a slash itself, and the data
\* source read an object after that.
C21_Witness ==
    /\ objStep.op = "Update" /\ objStep.diag = NoDiag
    /\ objState # Absent /\ ValueString(objState.key) = <<"k", "/", "k">>
    /\ odsState # Absent

AsIfSerial ==
    /\ s3Store = serial.store
    /\ \A r \in ConcResources :
         running[r].pc = "idle" =>
            tracked[r] = serial.tracked[r] /\ reported[r] = serial.reported[r]

FieldKept ==
    /\ \A r \in ConcResources : s3Client[r].ran => s3Client'[r] = s3Client[r]
    /\ keyClient.ran => keyClient' = keyClient

(***************************************************************************)
(* C22.  Lifecycle steps of different resources that run concurrently on   *)
(* handlers configured from the same provider data are safe: no handler    *)
(* field is written once Configure has set it, and every interleaving      *)
(* gives each step the result and the state it has when the steps run one  *)
(* after the other in some order (the order of their remote calls), and    *)
(* leaves the store as that serial run leaves it.                          *)
(***************************************************************************)
C22_ConcurrentStepsSerializable == []AsIfSerial /\ [][FieldKept]_vars

\* Both resources created the same object with different bodies, both calls
\* were answered, and neither handler has ended yet.
C22_Witness ==
    /\ \A r \in ConcResources :
         /\ running[r].pc = "response" /\ running[r].op = "Create"
         /\ running[r].out.reply = "ok"
    /\ running["r1"].plan.content # running["r2"].plan.content

\* A step of Create on the import path whose id the cluster holds.  With no
\* tracked state the only other steps are those of the cluster's other
\* users, which change the keys and nothing else.
ImportsRegisteredID ==
    /\ keyState = Absent /\ keyStep'.op = "Create"
    /\ KeyCreatePath(keyStep'.plan) = "import"
    /\ KeyExists(srvKeys, ValueString(keyStep'.plan.id))
    /\ keyStep' # keyStep \/ keyState' # keyState \/ srvKeys' = srvKeys

(***************************************************************************)
(* C23.  Importing a key whose id already exists fails: when Create takes  *)
(* the import path with an id that is registered on the cluster, ImportKey *)
(* answers with an error, the step reports 'Client Error' and records no   *)
(* state, and the cluster's keys (the existing key's name and secret among *)
(* them) are as they were.                                                 *)
(***************************************************************************)
C23_ImportOfExistingIdFails ==
    [][ImportsRegisteredID =>
          /\ keyStep'.calls = <<"ImportKey">> /\ keyReply' = "error"
          /\ keyStep'.diag = "Client Error"
          /\ keyState' = Absent
          /\ srvKeys' = srvKeys]_vars

\* Create took the import path and failed, and the id it asked for is held
\* by a key of the cluster.
C23_Witness ==
    /\ keyStep.op = "Create" /\ KeyCreatePath(keyStep.plan) = "import"
    /\ keyReply = "error" /\ keyStep.diag = "Client Error"
    /\ keyState = Absent
    /\ KeyExists(srvKeys, ValueString(keyStep.plan.id))

GeneratedUnnamed(plan) ==
    KeyCreatePath(plan) = "create" /\ (IsNull(plan.name) \/ IsUnknown(plan.name))

GeneratedKeyRecorded ==
    (/\ keyState = Absent /\ keyStep'.op = "Create" /\ keyStep'.diag = NoDiag
     /\ GeneratedUnnamed(keyStep'.plan))
    => LET id == ValueString(keyState'.id) IN
       /\ id # "" /\ ~KeyExists(srvKeys, id) /\ KeyExists(srvKeys', id)
       /\ keyState'.name = StringValue(Deref(srvKeys'[id]).Name)
       /\ keyState'.secret = StringValue(Deref(srvKeys'[id]).Secret)
       /\ ValueString(keyState'.secret) # ""

GeneratedKeyReadBack ==
    (/\ keyStep.op = "Create" /\ keyStep.diag = NoDiag
     /\ GeneratedUnnamed(keyStep.plan) /\ keyStep'.op = "Read")
    => /\ keyState' # Absent
       /\ keyState'.id = keyState.id /\ keyState'.name = keyState.name

(***************************************************************************)
(* C24.  The generated-key scenario: Create with neither id nor secret and *)
(* no name records a state with the non-empty id the cluster generated,    *)
(* the name the cluster returned and the non-empty one-time secret; a Read *)
(* that follows with no change from outside leaves id and name as they     *)
(* were.                                                                   *)
(***************************************************************************)
C24_GeneratedKeyScenario == [][GeneratedKeyRecorded /\ GeneratedKeyReadBack]_vars

\* A key created without a name was read back: the state holds the empty
\* name the cluster answered and the secret Create recorded.
C24_Witness ==
    /\ keyStep.op = "Read" /\ keyReply = "ok" /\ keyState = keyStep.plan
    /\ keyState.name = StringValue("") /\ keyState.secret = keySecret0
    /\ ValueString(keyState.secret) # ""

DsExactlyOneGiven(cfg) == IsNull(cfg.id) # IsNull(cfg.global_alias)

DsLookedUpExists(cfg) ==
    IF ~IsNull(cfg.id) THEN BucketExists(srvBuckets, ValueString(cfg.id))
    ELSE AliasTaken(srvBuckets, ValueString(cfg.global_alias))

DsPopulated ==
    dsState # Absent /\ dsStep.diag = NoDiag /\ DsLookedUpExists(dsStep.cfg)

DsNotFound ==
    dsState = Absent /\ dsStep.diag = "Bucket Not Found" /\ ~DsLookedUpExists(dsStep.cfg)

DsClientError == dsState = Absent /\ dsStep.diag = "Client Error"

\* C25 as stated: BucketDataSource.Read with exactly one of id and
\* global_alias given ends in exactly one of two ways: the bucket exists and
\* the state is populated with no error diagnostic, or the bucket does not
\* exist and the step reports 'Bucket Not Found' and sets no state.
C25_FoundOrNotFound ==
    (dsStep.op = "Read" /\ DsExactlyOneGiven(dsStep.cfg))
        => (DsPopulated # DsNotFound)

\* C25, amended: such a Read ends in exactly one of three ways: the two
\* above, or GetBucketInfo fails and the step reports 'Client Error' and
\* sets no state.
C25_FoundNotFoundOrClientError ==
    (dsStep.op = "Read" /\ DsExactlyOneGiven(dsStep.cfg))
        => /\ DsPopulated \/ DsNotFound \/ DsClientError
           /\ ~(DsPopulated /\ DsNotFound)
           /\ ~(DsPopulated /\ DsClientError)
           /\ ~(DsNotFound /\ DsClientError)

\* A read by alias alone found no bucket, while the cluster has buckets.
C25_Witness ==
    /\ dsStep.op = "Read" /\ DsExactlyOneGiven(dsStep.cfg) /\ IsNull(dsStep.cfg.id)
    /\ DsNotFound
    /\ \E id \in BucketIDs : BucketExists(srvBuckets, id)

\* The name the cluster holds for the tracked key.
ClusterKeyName(keys, state) == Deref(keys[ValueString(state.id)]).Name

\* C26: key updates converge: after a successful KeyResource.Update whose plan
\* changes the name, the key's name on the cluster is the planned name, and a
\* Read that follows records the planned name.
C26_KeyUpdateConverges ==
    [][/\ (/\ keyState # Absent /\ keyStep'.op = "Update" /\ keyStep'.diag = NoDiag
           /\ keyState'.name # keyState.name)
          => ClusterKeyName(srvKeys', keyState') = ValueString(keyStep'.plan.name)
       /\ (/\ keyStep.op = "Update" /\ keyStep.diag = NoDiag
           /\ keyStep'.op = "Read" /\ keyReply' = "ok")
          => keyState'.name = keyStep.plan.name]_vars

\* The content type C27 expects of an upload planned as plan.
ExpectedContentType(plan) ==
    IF IsNull(plan.content_type) \/ IsUnknown(plan.content_type)
    THEN IF ~IsNull(plan.source) THEN <<"application/octet-stream">>
         ELSE <<"text/plain">>
    ELSE ValueString(plan.content_type)

\* C27: when content_type is not given, GarageObjectResource.Create uploads
\* with 'application/octet-stream' for a body from source and 'text/plain'
\* for a body from content, and records that value in state; when it is
\* given, exactly that value is uploaded and recorded.
C27_DefaultContentType ==
    (objStep.op = "Create" /\ objStep.diag = NoDiag)
        => /\ objState.content_type = TextValue(ExpectedContentType(objStep.plan))
           /\ \E o \in ObjectsAt(s3Store, ValueString(objStep.plan.bucket),
                                  ValueString(objStep.plan.key)) :
                 o.ContentType = Some(ExpectedContentType(objStep.plan))

\* The body of the object the store holds where plan puts it is body.
UploadedBodyIs(plan, body) ==
    \E o \in ObjectsAt(s3Store, ValueString(plan.bucket), ValueString(plan.key)) :
        o.Body = body

CanOpen(source) == ValueString(source) \in DOMAIN FileSystem

\* C28: body selection in GarageObjectResource.Create: with source given the
\* file is uploaded and content is ignored; with only content given the
\* literal string is uploaded; with neither the step reports 'Missing
\* Content', calls no PutObject and records no state; when the source file
\* cannot be opened the step reports 'File Read Error' and calls no PutObject.
C28_BodySelection ==
    objStep.op = "Create" =>
        LET plan == objStep.plan IN
        /\ (~IsNull(plan.source) /\ CanOpen(plan.source))
              => /\ objStep.diag \in {NoDiag, "Object Upload Failed"}
                 /\ objStep.diag = NoDiag
                       => UploadedBodyIs(plan, FileSystem[ValueString(plan.source)])
        /\ (~IsNull(plan.source) /\ ~CanOpen(plan.source))
              => /\ objStep.diag = "File Read Error"
                 /\ objStep.calls = <<>> /\ objState = Absent
        /\ (IsNull(plan.source) /\ ~IsNull(plan.content))
              => /\ objStep.diag \in {NoDiag, "Object Upload Failed"}
                 /\ objStep.diag = NoDiag
                       => UploadedBodyIs(plan, ValueString(plan.content))
        /\ (IsNull(plan.source) /\ IsNull(plan.content))
              => /\ objStep.diag = "Missing Content"
                 /\ objStep.calls = <<>> /\ objState = Absent

\* Create was given a source and a different content, and uploaded the file.
C28_Witness ==
    /\ objStep.op = "Create" /\ objStep.diag = NoDiag
    /\ ~IsNull(objStep.plan.source) /\ ~IsNull(objStep.plan.content)
    /\ ValueString(objStep.plan.content) # FileSystem[ValueString(objStep.plan.source)]
    /\ UploadedBodyIs(objStep.plan, FileSystem[ValueString(objStep.plan.source)])

\* C29: no orphaned objects: after any sequence of Create, Update and Delete
\* steps of one object resource, an Update that changes bucket or key
\* included, the store holds an object written by the resource at (b, k)
\* only if the tracked state names (b, k); after a Delete none of the objects
\* it wrote remain.
C29_NoOrphanedObjects ==
    \A o \in s3Store :
        /\ objState # Absent
        /\ o.Bucket = ValueString(objState.bucket)
        /\ o.Key = ValueString(objState.key)

\* The tracked state was imported from the id of the state Create recorded.
ImportedFromCreated ==
    /\ objAside.by = "Create"
    /\ objState # Absent /\ objState.id = objAside.state.id

\* C30: import inverts Create's id: the id Create recorded for (bucket, key),
\* given to ImportState, yields the same bucket and the same key, and a Read
\* that follows yields the etag and the content_type of the state Create
\* recorded.
C30_ImportInvertsCreate ==
    ImportedFromCreated
        => /\ objState.bucket = objAside.state.bucket
           /\ objState.key = objAside.state.key
           /\ (objStep.op = "Read" /\ Replies(objStep.calls) = {"ok"})
                 => /\ objState.etag = objAside.state.etag
                    /\ objState.content_type = objAside.state.content_type

====
